---------------------------- MODULE Spec2Model ----------------------------
(***************************************************************************)
(* A model of the wave system of vibifly: the WaveField grid               *)
(* (src/js/WaveField.js) and the traveling-wave life cycle driven by       *)
(* Game.update (src/js/Game.js) and WaveRenderer.updateTravelingWaves      *)
(* (src/js/WaveRenderer.js).                                               *)
(*                                                                         *)
(* Spec explores the calls of the WaveField interface, GameSpec the ticks  *)
(* of Game.update over emitted waves, DecaySpec a field that is only       *)
(* ticked, LifeSpec the life of one wave, LoopSpec the animation loop      *)
(* (start, pause, frames) and EmitterSpec the calls of an Emitter          *)
(* (Emitter.js, with snapToScale and getPlayerColor of src/js/Utils.js).   *)
(* ScaleSpec applies snapToScale to a range of frequencies, CanvasSpec     *)
(* adds the resize handler and the WaveField constructor to the ticks of   *)
(* the game, SettleSpec follows one short-lived wave under a loop that     *)
(* keeps running and RestSpec a pulsed field that is only updated.         *)
(*                                                                         *)
(* Numbers.  The source computes in IEEE doubles; the model computes in    *)
(* fixed point, rounding down:                                             *)
(*   energy, intensity, amount, velocity   thousandths (1000 = 1.0)        *)
(*   frequency                             Hz                              *)
(*   phase                                 milliradians (6283 = 2*pi)      *)
(*   angles                                whole degrees (atan2 rounds     *)
(*                                         towards the nearest axis)       *)
(*   lengths                               thirds of a pixel, so that a    *)
(*                                         wave of speed 200 px/s grows by *)
(*                                         a whole number per 1/60 s       *)
(*   deltaTime                             sixtieths of a second           *)
(***************************************************************************)
EXTENDS Integers, Sequences, FiniteSets, TLC

(***************************************************************************)
(* Bounds of the model.                                                    *)
(***************************************************************************)
\* cells per side of the grid (the constructor's resolution argument)
Resolution == 3
\* calls of the WaveField interface explored from the initial field
MaxSteps == 3
\* waves emitted in a run of the game
MaxWaves == 2
\* ticks of Game.update in a run of the game
MaxTicks == 3

(***************************************************************************)
(* Program constants, in the units above.                                  *)
(***************************************************************************)
\* Math.min(1.0, ...): the cap of a cell's energy
EnergyCap == 1000
\* 0.01: "practically zero" energy, and the energy above which phase advances
EnergyEpsilon == 10
\* 0.05: an injection above this blends frequency and color
BlendThreshold == 50
\* 0.1: an injection above this blends velocity
VelocityThreshold == 100
\* 0.01: a velocity magnitude below this is zeroed
VelocityEpsilon == 10
\* Math.PI * 2
TwoPi == 6283
\* decayRate = 0.98, as hundredths
DecayRate == 98
\* frequency of a fresh or cleared cell
DefaultFrequency == 440
\* Math.min(deltaTime, 0.1): 0.1 s is 6 sixtieths
MaxDelta == 6
\* velocityFactor = 2.0
VelocityFactor == 2
\* spreadAngle = 360 is omnidirectional
FullCircle == 360

\* this.width (and this.height): ten pixels per cell
Width == Resolution * 30
\* this.cellWidth = width / resolution (this.cellHeight likewise)
CellWidth == Width \div Resolution

NumCells == Resolution * Resolution
Cells == 0 .. (NumCells - 1)

(***************************************************************************)
(* Arithmetic of the source on fixed-point numbers.                        *)
(***************************************************************************)
Abs(a) == IF a < 0 THEN -a ELSE a

Min(a, b) == IF a < b THEN a ELSE b

Max(a, b) == IF a > b THEN a ELSE b

\* a / b rounded down, for b of either sign (b # 0)
Div(a, b) == IF b > 0 THEN a \div b ELSE (-a) \div (-b)

\* Math.round(a / b): the nearest integer, halves up
RoundDiv(a, b) == Div(2 * a + b, 2 * b)

\* JavaScript's %: the remainder has the sign of the dividend
JsMod(a, m) == IF a >= 0 THEN a % m ELSE -((-a) % m)

\* Math.floor(a / b) for b > 0
FloorDiv(a, b) == a \div b

\* Math.ceil(a / b) for b > 0
CeilDiv(a, b) == -((-a) \div b)

RECURSIVE SqrtSearch(_, _, _)
SqrtSearch(x, lo, hi) ==
    IF lo >= hi THEN lo
    ELSE LET mid == (lo + hi + 1) \div 2
         IN  IF mid * mid <= x THEN SqrtSearch(x, mid, hi)
             ELSE SqrtSearch(x, lo, mid - 1)

\* Math.sqrt(x) rounded down, 0 <= x < 2^30
ISqrt(x) == SqrtSearch(x, 0, 32767)

\* tan of 0 .. 45 degrees, in thousandths
TanTable ==
  << 0, 17, 35, 52, 70, 87, 105, 123, 141, 158, 176, 194, 213, 231, 249,
     268, 287, 306, 325, 344, 364, 384, 404, 424, 445, 466, 488, 510, 532,
     554, 577, 601, 625, 649, 675, 700, 727, 754, 781, 810, 839, 869, 900,
     933, 966, 1000 >>

\* sin of 0 .. 90 degrees, in thousandths
SinTable ==
  << 0, 17, 35, 52, 70, 87, 105, 122, 139, 156, 174, 191, 208, 225, 242,
     259, 276, 292, 309, 326, 342, 358, 375, 391, 407, 423, 438, 454, 469,
     485, 500, 515, 530, 545, 559, 574, 588, 602, 616, 629, 643, 656, 669,
     682, 695, 707, 719, 731, 743, 755, 766, 777, 788, 799, 809, 819, 829,
     839, 848, 857, 866, 875, 883, 891, 899, 906, 914, 921, 927, 934, 940,
     946, 951, 956, 961, 966, 970, 974, 978, 982, 985, 988, 990, 993, 995,
     996, 998, 999, 999, 1000, 1000 >>

\* atan(num/den) in degrees for 0 <= num <= den, den > 0: 0 .. 45
AtanDeg(num, den) ==
    Cardinality({ k \in 1 .. 45 : TanTable[k + 1] * den <= 1000 * num })

\* atan2 in the first quadrant (dx >= 0, dy >= 0, not both 0): 0 .. 90
AtanQuadrant(dy, dx) ==
    IF dy <= dx THEN AtanDeg(dy, dx) ELSE 90 - AtanDeg(dx, dy)

\* Math.atan2(dy, dx) in degrees: -179 .. 180, and 0 for (0, 0)
Atan2(dy, dx) ==
    IF dx = 0 /\ dy = 0 THEN 0
    ELSE IF dx >= 0 /\ dy >= 0 THEN AtanQuadrant(dy, dx)
    ELSE IF dx < 0 /\ dy >= 0 THEN 180 - AtanQuadrant(dy, -dx)
    ELSE IF dx < 0 /\ dy < 0 THEN AtanQuadrant(-dy, -dx) - 180
    ELSE -AtanQuadrant(-dy, dx)

\* Math.sin of an angle of 0 .. 359 degrees, in thousandths
Sin(a) ==
    IF a <= 90 THEN SinTable[a + 1]
    ELSE IF a <= 180 THEN SinTable[180 - a + 1]
    ELSE IF a <= 270 THEN -SinTable[a - 180 + 1]
    ELSE -SinTable[360 - a + 1]

\* Math.cos of an angle of 0 .. 359 degrees, in thousandths
Cos(a) == Sin((a + 90) % 360)

RECURSIVE PowDecay(_)
\* Math.pow(decayRate, n) for a whole exponent n, in millionths
PowDecay(n) ==
    IF n = 0 THEN 1000000
    ELSE IF n > 0 THEN (PowDecay(n - 1) * DecayRate) \div 100
    ELSE (PowDecay(n + 1) * 100) \div DecayRate

(***************************************************************************)
(* The field.  A cell is an object {energy, frequency, color, lastActive,  *)
(* phase, velocity}; its color is a reference to an array of three         *)
(* channels, kept in a heap because update() copies the reference, not the *)
(* array.  A field value F has                                             *)
(*   F.grid      this.grid: the cell objects, in row-major order           *)
(*   F.colors    the heap of color arrays                                  *)
(*   F.held      the cell objects of the grid that the last update()       *)
(*               replaced: what a reference taken before it points to      *)
(*   F.timeStep  this.timeStep                                             *)
(* Cell i of the grid uses color reference i or NumCells + i.              *)
(***************************************************************************)
ColorRefs == 0 .. (2 * NumCells - 1)

Black == << 0, 0, 0 >>

\* the other color reference of the same grid index
OtherRef(r) == IF r < NumCells THEN r + NumCells ELSE r - NumCells

\* a cell as the constructor builds it, its color array at reference r
NewCell(r) ==
    [ energy |-> 0, frequency |-> DefaultFrequency, color |-> r,
      lastActive |-> 0, phase |-> 0, velocity |-> [ x |-> 0, y |-> 0 ] ]

\* new WaveField(width, height, resolution)
NewField ==
    [ grid     |-> [ i \in Cells |-> NewCell(i) ],
      colors   |-> [ r \in ColorRefs |-> Black ],
      held     |-> [ i \in Cells |-> NewCell(i + NumCells) ],
      timeStep |-> 0 ]

\* the bounds check of getCell
InGrid(x, y) == x >= 0 /\ x < Resolution /\ y >= 0 /\ y < Resolution

\* the row-major index getCell reads
CellIndex(x, y) == y * Resolution + x

\* index % resolution and Math.floor(index / resolution)
CellX(i) == i % Resolution

CellY(i) == i \div Resolution

\* gridToWorld(gridX, gridY).x (and .y): the centre of the cell
GridToWorld(g) == g * CellWidth + CellWidth \div 2

\* worldToGrid(worldX, worldY).x (and .y)
WorldToGrid(w) == FloorDiv(w, CellWidth)

\* old * (1 - num/den) + new * num/den
Blend(old, new, num, den) == Div(old * (den - num) + new * num, den)

\* Math.round(old * (1 - num/den) + new * num/den)
BlendRound(old, new, num, den) == RoundDiv(old * (den - num) + new * num, den)

BlendColor(old, new, num, den) ==
    [ k \in 1 .. 3 |-> BlendRound(old[k], new[k], num, den) ]

\* addEnergy divides by currentEnergy + amount when amount > 0.05
AddEnergyFinite(F, gx, gy, amount) ==
    InGrid(gx, gy) /\ amount > BlendThreshold
        => F.grid[CellIndex(gx, gy)].energy + amount # 0

\* an addEnergy without the bounds check, the index wrapped into the grid
AddEnergyWrapped(F, gx, gy, amount, frequency, color) ==
    [ F EXCEPT
        !.grid[CellIndex(gx, gy) % NumCells].energy =
           Min(EnergyCap, @ + amount) ]

\* addEnergy(gridX, gridY, amount, frequency, color)
AddEnergy(F, gx, gy, amount, frequency, color) ==
    IF ~InGrid(gx, gy) THEN F
    ELSE
      LET i == CellIndex(gx, gy)
          cell == F.grid[i]
          currentEnergy == cell.energy
          newEnergy == Min(EnergyCap, currentEnergy + amount)
          den == currentEnergy + amount
          blends == amount > BlendThreshold
      IN  [ F EXCEPT
              !.grid[i] =
                 [ cell EXCEPT
                     !.frequency = IF blends
                                   THEN Blend(@, frequency, amount, den)
                                   ELSE @,
                     !.energy = newEnergy,
                     !.lastActive = F.timeStep ],
              !.colors[cell.color] =
                 IF blends THEN BlendColor(@, color, amount, den) ELSE @ ]

\* angle = ((angle % (2 * Math.PI)) + 2 * Math.PI) % (2 * Math.PI)
NormalizeAngle(angle) == JsMod(JsMod(angle, FullCircle) + FullCircle, FullCircle)

\* gridRadius = Math.ceil(radius / this.cellWidth)
GridRadius(radius) == CeilDiv(radius, CellWidth)

\* the bounding square the two for loops scan, clipped by the bounds check
InScan(x, y, worldX, worldY, radius) ==
    /\ InGrid(x, y)
    /\ x >= WorldToGrid(worldX) - GridRadius(radius)
    /\ x <= WorldToGrid(worldX) + GridRadius(radius)
    /\ y >= WorldToGrid(worldY) - GridRadius(radius)
    /\ y <= WorldToGrid(worldY) + GridRadius(radius)

\* dx * dx + dy * dy for the centre of cell (x, y)
DistanceSq(x, y, worldX, worldY) ==
    (GridToWorld(x) - worldX) * (GridToWorld(x) - worldX)
      + (GridToWorld(y) - worldY) * (GridToWorld(y) - worldY)

\* distance <= radius
WithinRadius(d2, radius) == radius >= 0 /\ d2 <= radius * radius

\* angleDiff = Math.abs(cellAngle - angle), then 2*PI - angleDiff if above PI
AngleDiff(cellAngle, angle) ==
    LET diff == Abs(cellAngle - angle)
    IN  IF diff > 180 THEN FullCircle - diff ELSE diff

\* isInDirection = angleDiff <= halfSpread, halfSpread = spreadAngle*PI/360
IsInDirection(angleDiff, spreadAngle) == 2 * angleDiff <= spreadAngle

\* directionFactor = isInDirection ? 1 - angleDiff / halfSpread : 0
DirectionFactor(angleDiff, spreadAngle) ==
    IF IsInDirection(angleDiff, spreadAngle)
    THEN 1000 - Div(2000 * angleDiff, spreadAngle)
    ELSE 0

\* the cone test of cell (x, y): always passed by an omnidirectional pulse
CellInDirection(x, y, worldX, worldY, angle, spreadAngle) ==
    IF spreadAngle < FullCircle
    THEN IsInDirection(
             AngleDiff(Atan2(GridToWorld(y) - worldY, GridToWorld(x) - worldX),
                       angle),
             spreadAngle)
    ELSE TRUE

\* the directionFactor of cell (x, y): 1.0 for an omnidirectional pulse
CellDirectionFactor(x, y, worldX, worldY, angle, spreadAngle) ==
    IF spreadAngle < FullCircle
    THEN DirectionFactor(
             AngleDiff(Atan2(GridToWorld(y) - worldY, GridToWorld(x) - worldX),
                       angle),
             spreadAngle)
    ELSE 1000

\* a faulty ring test that lets the whole disc through: the thickness test
\* left out, only radius > 0 kept
InDisc(d2, radius) == radius > 0

\* distFromWaveFront < waveThickness, for distance <= radius:
\* radius - distance < 0.2 * radius
InWaveFront(d2, radius) == radius > 0 /\ 25 * d2 > 16 * radius * radius

\* intensityFactor = 1 - distFromWaveFront / waveThickness
IntensityFactor(d2, radius) ==
    Div(50 * ISqrt(10000 * d2) - 4000 * radius, radius)

\* cellIntensity = intensity * intensityFactor
CellIntensity(intensity, d2, radius) ==
    Div(intensity * IntensityFactor(d2, radius), 1000)

\* whether addWavePulse reaches the body that updates cell (x, y)
PulseHits(x, y, worldX, worldY, radius, angle, spreadAngle) ==
    /\ InScan(x, y, worldX, worldY, radius)
    /\ WithinRadius(DistanceSq(x, y, worldX, worldY), radius)
    /\ CellInDirection(x, y, worldX, worldY, angle, spreadAngle)
    /\ InWaveFront(DistanceSq(x, y, worldX, worldY), radius)

\* the velocity blend of a hit cell: blendFactor = cellIntensity/(newEnergy||1)
PulseVelocity(v, cellIntensity, newEnergy, velocityXY, directionFactor) ==
    IF cellIntensity > VelocityThreshold
    THEN Blend(v,
               Div(Div(velocityXY * cellIntensity, 1000) * directionFactor,
                   1000),
               cellIntensity,
               IF newEnergy = 0 THEN 1000 ELSE newEnergy)
    ELSE v

\* the cell object after the pulse has updated it
PulseCell(cell, timeStep, cellIntensity, frequency, angle, directionFactor) ==
    LET newEnergy == Min(EnergyCap, cell.energy + cellIntensity)
    IN  [ cell EXCEPT
            !.velocity =
               [ x |-> PulseVelocity(@.x, cellIntensity, newEnergy,
                                     Cos(angle) * VelocityFactor,
                                     directionFactor),
                 y |-> PulseVelocity(@.y, cellIntensity, newEnergy,
                                     Sin(angle) * VelocityFactor,
                                     directionFactor) ],
            !.frequency =
               IF cellIntensity > BlendThreshold
               THEN Blend(@, frequency, cellIntensity, newEnergy)
               ELSE @,
            !.energy = newEnergy,
            !.lastActive = timeStep ]

\* the color array of a hit cell after the pulse
PulseColor(old, energy, cellIntensity, color) ==
    IF cellIntensity > BlendThreshold
    THEN BlendColor(old, color, cellIntensity,
                    Min(EnergyCap, energy + cellIntensity))
    ELSE old

\* addWavePulse divides by newEnergy when cellIntensity > 0.05
AddWavePulseFinite(F, worldX, worldY, radius, intensity, angle, spreadAngle) ==
    \A i \in Cells :
        LET d2 == DistanceSq(CellX(i), CellY(i), worldX, worldY)
        IN  ( /\ PulseHits(CellX(i), CellY(i), worldX, worldY, radius,
                           NormalizeAngle(angle), spreadAngle)
              /\ CellIntensity(intensity, d2, radius) > BlendThreshold )
            => Min(EnergyCap,
                   F.grid[i].energy + CellIntensity(intensity, d2, radius)) # 0

\* addWavePulse(worldX, worldY, radius, intensity, frequency, color, angle,
\*              spreadAngle)
AddWavePulse(F, worldX, worldY, radius, intensity, frequency, color, angle, spreadAngle) ==
    LET a == NormalizeAngle(angle)
        hit(i) == PulseHits(CellX(i), CellY(i), worldX, worldY, radius, a,
                            spreadAngle)
        ci(i) == CellIntensity(intensity,
                               DistanceSq(CellX(i), CellY(i), worldX, worldY),
                               radius)
        df(i) == CellDirectionFactor(CellX(i), CellY(i), worldX, worldY, a,
                                     spreadAngle)
        owner(r) == r % NumCells
    IN  [ F EXCEPT
            !.grid = [ i \in Cells |->
                         IF hit(i)
                         THEN PulseCell(F.grid[i], F.timeStep, ci(i),
                                        frequency, a, df(i))
                         ELSE F.grid[i] ],
            !.colors = [ r \in ColorRefs |->
                           IF F.grid[owner(r)].color = r /\ hit(owner(r))
                           THEN PulseColor(F.colors[r],
                                           F.grid[owner(r)].energy,
                                           ci(owner(r)), color)
                           ELSE F.colors[r] ] ]

\* a faulty decay, with the sign of the exponent lost:
\* energy * Math.pow(decayRate, -deltaTime * 60)
GrowingEnergy(energy, deltaTime) ==
    Div(energy * PowDecay(-deltaTime), 1000000)

\* cell.energy * Math.pow(this.decayRate, deltaTime * 60)
\* a decay by one frame per call, whatever the time the call covers
FrameDecay(energy, deltaTime) == Div(energy * PowDecay(1), 1000000)

DecayedEnergy(energy, deltaTime) ==
    Div(energy * PowDecay(deltaTime), 1000000)

\* the energy update() leaves in the new grid: below 0.01 it is reset to 0
UpdatedEnergy(energy, deltaTime) ==
    IF DecayedEnergy(energy, deltaTime) < EnergyEpsilon
    THEN 0
    ELSE DecayedEnergy(energy, deltaTime)

\* (cell.phase + (deltaTime * cell.frequency) / 20) % (Math.PI * 2)
AdvancedPhase(phase, frequency, deltaTime) ==
    JsMod(phase + Div(deltaTime * frequency * 5, 6), TwoPi)

\* one component of the velocity before the magnitude test
ScaledVelocity(v, energy, deltaTime) ==
    IF energy > EnergyEpsilon
    THEN Div(v * DecayedEnergy(energy, deltaTime), energy)
    ELSE Div(v * 8, 10)

\* the velocity update() leaves in the new grid
\* an update() that processes the velocity of the cells with energy only
VelocityOfLiveCells(velocity, energy, deltaTime) ==
    IF energy > EnergyEpsilon
    THEN [ x |-> ScaledVelocity(velocity.x, energy, deltaTime),
           y |-> ScaledVelocity(velocity.y, energy, deltaTime) ]
    ELSE velocity

UpdatedVelocity(velocity, energy, deltaTime) ==
    IF velocity.x # 0 \/ velocity.y # 0
    THEN LET vx == ScaledVelocity(velocity.x, energy, deltaTime)
             vy == ScaledVelocity(velocity.y, energy, deltaTime)
         IN  IF vx * vx + vy * vy < VelocityEpsilon * VelocityEpsilon
             THEN [ x |-> 0, y |-> 0 ]
             ELSE [ x |-> vx, y |-> vy ]
    ELSE velocity

\* the phase update() writes: into the cell object it reads, this.grid's
PhaseWritten(cell, deltaTime) ==
    IF cell.energy > EnergyEpsilon
    THEN AdvancedPhase(cell.phase, cell.frequency, deltaTime)
    ELSE cell.phase

\* the cell of newGrid: {...cell, velocity: {...cell.velocity}}, copied before
\* the loop, then given its energy and velocity
UpdatedCell(cell, deltaTime) ==
    [ cell EXCEPT
        !.energy = UpdatedEnergy(cell.energy, deltaTime),
        !.velocity = UpdatedVelocity(cell.velocity, cell.energy, deltaTime) ]

\* the cell object of the replaced grid after update() has run over it
ReplacedCell(cell, deltaTime) ==
    [ cell EXCEPT !.phase = PhaseWritten(cell, deltaTime) ]

\* update(deltaTime)
Update(F, deltaTime) ==
    [ grid     |-> [ i \in Cells |-> UpdatedCell(F.grid[i], deltaTime) ],
      held     |-> [ i \in Cells |-> ReplacedCell(F.grid[i], deltaTime) ],
      colors   |-> [ r \in ColorRefs |->
                       IF F.grid[r % NumCells].color = r
                       THEN F.colors[r]
                       ELSE Black ],
      timeStep |-> F.timeStep + 1 ]

\* a clear that rebuilds every cell, velocity and lastActive included
Reset(F) == [ NewField EXCEPT !.timeStep = F.timeStep ]

\* the reference of the array clear() allocates for cell i
ClearedRef(F, i) ==
    IF F.held[i].color = F.grid[i].color
    THEN OtherRef(F.grid[i].color)
    ELSE F.grid[i].color

\* clear()
Clear(F) ==
    [ F EXCEPT
        !.grid = [ i \in Cells |->
                     [ F.grid[i] EXCEPT
                         !.energy = 0,
                         !.frequency = DefaultFrequency,
                         !.color = ClearedRef(F, i),
                         !.phase = 0 ] ],
        !.colors = [ r \in ColorRefs |->
                       IF ClearedRef(F, r % NumCells) = r
                       THEN Black
                       ELSE F.colors[r] ] ]

\* getCell(x, y): the cell object, or "null"
GetCell(F, x, y) == IF InGrid(x, y) THEN F.grid[CellIndex(x, y)] ELSE "null"

\* getCellAtPosition(worldX, worldY)
GetCellAtPosition(F, worldX, worldY) ==
    GetCell(F, WorldToGrid(worldX), WorldToGrid(worldY))

\* a / b as the source computes it: not finite when b is 0 (a > 0)
Quotient(a, b) ==
    [ finite |-> b # 0, value |-> IF b # 0 THEN a \div b ELSE 0 ]

\* new WaveField(width, height, resolution): the shape of the object the
\* constructor returns; it has no statement that throws
NewWaveField(width, height, resolution) ==
    [ width |-> width, height |-> height, resolution |-> resolution,
      cellWidth |-> Quotient(width, resolution),
      cellHeight |-> Quotient(height, resolution),
      length |-> resolution * resolution ]

(***************************************************************************)
(* The driving loop's time step (Game.gameLoop, Game.update).              *)
(***************************************************************************)
\* deltaTime = (timestamp - this.lastTimestamp) / 1000
FrameDelta(timestamp, lastTimestamp) == timestamp - lastTimestamp

\* dt = Math.min(deltaTime, 0.1)
CappedDelta(deltaTime) == Min(deltaTime, MaxDelta)

\* Gaps between a frame's timestamp and lastTimestamp.  The first frame
\* after start() compares the frame's timestamp with an earlier reading of
\* performance.now(); a frame's timestamp is the time its frame began, which
\* may lie before that reading, so the gap may be negative.
FrameGaps == { -1, 0, 1, 2 * MaxDelta }

\* every dt the loop can pass to updateShip, updateTravelingWaves and update
DeltaTimes == { CappedDelta(FrameDelta(g, 0)) : g \in FrameGaps }

(***************************************************************************)
(* Traveling waves.  A wave is an object shared by Game.travelingWaves and *)
(* WaveRenderer.travelingWaves; the model keeps the wave objects in a heap *)
(* (a function from wave identities) and the two arrays as sequences of    *)
(* identities.                                                             *)
(***************************************************************************)
\* radius: 10, the starting radius of an emitted wave (10 px)
StartRadius == 30
\* this.waveSpeed = 200 px/s, per sixtieth of a second
WaveSpeed == 10
\* 0.01: a wave at or below this intensity is removed
WaveEpsilon == 10
\* 0.05: a wave above this intensity is forwarded to the field
PulseThreshold == 50

\* the wave object emitWave builds and hands to onEmitWave
NewWave(position, angle, spreadAngle, maxRadius, intensity, tone) ==
    [ position |-> position, angle |-> angle, spreadAngle |-> spreadAngle,
      radius |-> StartRadius, maxRadius |-> maxRadius, speed |-> WaveSpeed,
      intensity |-> intensity, frequency |-> tone.frequency,
      color |-> tone.color ]

\* wave.radius += wave.speed * deltaTime
GrownRadius(wave, deltaTime) == wave.radius + wave.speed * deltaTime

\* distanceFactor = 1 - wave.radius / wave.maxRadius / 2
DistanceFactor(radius, maxRadius) == 1000 - Div(1000 * radius, 2 * maxRadius)

\* the wave object after the body of updateTravelingWaves' filter callback
AdvancedWave(wave, deltaTime) ==
    [ wave EXCEPT
        !.radius = GrownRadius(wave, deltaTime),
        !.intensity =
           Max(0, Div(@ * DistanceFactor(GrownRadius(wave, deltaTime),
                                         wave.maxRadius), 1000)) ]

\* WaveRenderer keeps: wave.radius < wave.maxRadius && wave.intensity > 0.01
RendererKeeps(wave) ==
    wave.radius < wave.maxRadius /\ wave.intensity > WaveEpsilon

\* Game keeps: wave.radius <= wave.maxRadius && wave.intensity > 0.01
GameKeeps(wave) ==
    wave.radius <= wave.maxRadius /\ wave.intensity > WaveEpsilon

\* Game.update forwards a wave if wave.intensity > 0.05
Forwards(wave) == wave.intensity > PulseThreshold

\* this.travelingWaves.filter(...) of WaveRenderer, after the waves advanced
RendererFilter(ids, heap) ==
    SelectSeq(ids, LAMBDA w : RendererKeeps(heap[w]))

\* this.travelingWaves.filter(...) of Game.update
GameFilter(ids, heap) ==
    SelectSeq(ids, LAMBDA w : GameKeeps(heap[w]))

\* the identities in a sequence
Members(ids) == { ids[k] : k \in 1 .. Len(ids) }

\* updateTravelingWaves(deltaTime): the heap after every wave of the
\* renderer's array has been advanced
AdvancedHeap(heap, rendererIds, deltaTime) ==
    [ w \in DOMAIN heap |->
        IF w \in Members(rendererIds)
        THEN AdvancedWave(heap[w], deltaTime)
        ELSE heap[w] ]

\* the addWavePulse call Game.update makes for a wave
ForwardPulse(F, wave) ==
    AddWavePulse(F, wave.position[1], wave.position[2], wave.radius,
                 wave.intensity, wave.frequency, wave.color, wave.angle,
                 wave.spreadAngle)

\* this.travelingWaves.forEach(...): the field after the pulses of the waves
RECURSIVE ForwardAll(_, _, _)
ForwardAll(F, ids, heap) ==
    IF ids = << >> THEN F
    ELSE ForwardAll(IF Forwards(heap[Head(ids)])
                    THEN ForwardPulse(F, heap[Head(ids)])
                    ELSE F,
                    Tail(ids), heap)

(***************************************************************************)
(* Musical scales (src/js/Utils.js).  Frequencies of the emitter are in    *)
(* hundredths of a Hz, pitch distances in hundredths of a semitone.        *)
(***************************************************************************)
\* baseFreq = 440 (A4), in hundredths of a Hz
BaseFreq == 44000
\* minDistance = Infinity: larger than every distance inside an octave
Infinity == 1000000

\* 2^(k/12) for k = 0 .. 12, as hundred-thousandths
Pow2Table ==
    << 100000, 105946, 112246, 118921, 125992, 133484, 141421, 149831,
       158740, 168179, 178180, 188775, 200000 >>

\* 2^n for a natural n
RECURSIVE Pow2(_)
Pow2(n) == IF n = 0 THEN 1 ELSE 2 * Pow2(n - 1)

\* Math.floor(Math.log2(frequency / baseFreq)), for a positive frequency
RECURSIVE Log2Floor(_)
Log2Floor(frequency) ==
    IF frequency >= 2 * BaseFreq THEN 1 + Log2Floor(frequency \div 2)
    ELSE IF frequency < BaseFreq THEN Log2Floor(2 * frequency) - 1
    ELSE 0

\* frequency / baseFreq / 2^o as hundred-thousandths, in [1, 2)
OctaveRatio(frequency, o) ==
    IF o >= 0 THEN Div(frequency * 25, 11 * Pow2(o))
    ELSE Div(frequency * Pow2(-o) * 25, 11)

\* 12 * Math.log2(frequency / baseFreq): the octave, the semitone below and
\* the part of the semitone (linear between two entries of the table)
Semitones(frequency) ==
    LET o == Log2Floor(frequency)
        r == OctaveRatio(frequency, o)
        k == CHOOSE j \in 0 .. 11 :
                 Pow2Table[j + 1] <= r /\ r < Pow2Table[j + 2]
    IN  1200 * o + 100 * k
          + Div(100 * (r - Pow2Table[k + 1]),
                Pow2Table[k + 2] - Pow2Table[k + 1])

\* const scales = {...}
Scales ==
    [ major |-> << 0, 2, 4, 5, 7, 9, 11 >>,
      minor |-> << 0, 2, 3, 5, 7, 8, 10 >>,
      pentatonic |-> << 0, 2, 4, 7, 9 >>,
      minorPentatonic |-> << 0, 3, 5, 7, 10 >>,
      harmonicMinor |-> << 0, 2, 3, 5, 7, 8, 11 >>,
      chromatic |-> << 0, 1, 2, 3, 4, 5, 6, 7, 8, 9, 10, 11 >> ]

\* scales[scaleType] || scales.major
ScalePattern(scaleType) ==
    IF scaleType \in DOMAIN Scales THEN Scales[scaleType] ELSE Scales.major

\* a round of the loop that only takes a note above the input
UpperNote(best, semitonesInOctave, note) ==
    IF 100 * note > semitonesInOctave
         /\ 100 * note - semitonesInOctave < best.distance
    THEN [ note |-> note, distance |-> 100 * note - semitonesInOctave ]
    ELSE best

\* one round of the loop: the note, then the note an octave lower
CloserNote(best, semitonesInOctave, note) ==
    LET distance == Abs(semitonesInOctave - 100 * note)
        first == IF distance < best.distance
                 THEN [ note |-> note, distance |-> distance ]
                 ELSE best
        lowerDistance == Abs(semitonesInOctave - 100 * (note - 12))
    IN  IF lowerDistance < first.distance
        THEN [ note |-> note - 12, distance |-> lowerDistance ]
        ELSE first

\* the loop over scalePattern
RECURSIVE ClosestNote(_, _, _)
ClosestNote(best, semitonesInOctave, pattern) ==
    IF pattern = << >> THEN best
    ELSE ClosestNote(CloserNote(best, semitonesInOctave, Head(pattern)),
                     semitonesInOctave, Tail(pattern))

\* octave * 12 + closestNote: the semitone snapToScale settles on
SnappedNote(frequency, scaleType) ==
    LET semitones == Semitones(frequency)
        octave == FloorDiv(semitones, 1200)
        semitonesInOctave == JsMod(JsMod(semitones, 1200) + 1200, 1200)
        closest == ClosestNote([ note |-> 0, distance |-> Infinity ],
                               semitonesInOctave, ScalePattern(scaleType))
    IN  octave * 12 + closest.note

\* baseFreq * Math.pow(2, note / 12)
NoteFrequency(note) ==
    LET o == FloorDiv(note, 12)
        p == Pow2Table[(note % 12) + 1]
    IN  IF o >= 0 THEN Div(p * 11 * Pow2(o), 25)
        ELSE Div(p * 11, 25 * Pow2(-o))

\* a frequency left as it is
Unsnapped(frequency, scaleType) == frequency

\* snapToScale(frequency, scaleType)
SnapToScale(frequency, scaleType) ==
    NoteFrequency(SnappedNote(frequency, scaleType))

(***************************************************************************)
(* Player colors (src/js/Utils.js).  Hues are millionths of a turn,        *)
(* saturation, lightness and channels before scaling thousandths.          *)
(***************************************************************************)
\* goldenRatio = 0.618033988749895
GoldenRatio == 618034
\* one turn of hue
Turn == 1000000

\* hue2rgb(p, q, t)
Hue2Rgb(p, q, t) ==
    LET u == IF t < 0 THEN t + Turn ELSE IF t > Turn THEN t - Turn ELSE t
    IN  IF 6 * u < Turn THEN p + Div((q - p) * 6 * u, Turn)
        ELSE IF 2 * u < Turn THEN q
        ELSE IF 3 * u < 2 * Turn
             THEN p + Div((q - p) * (4 * Turn - 6 * u), Turn)
        ELSE p

\* hslToRgb(h, s, l)
HslToRgb(h, s, l) ==
    IF s = 0
    THEN << RoundDiv(l * 255, 1000), RoundDiv(l * 255, 1000),
            RoundDiv(l * 255, 1000) >>
    ELSE LET q == IF l < 500 THEN Div(l * (1000 + s), 1000)
                  ELSE l + s - Div(l * s, 1000)
             p == 2 * l - q
         IN  << RoundDiv(Hue2Rgb(p, q, h + Turn \div 3) * 255, 1000),
                RoundDiv(Hue2Rgb(p, q, h) * 255, 1000),
                RoundDiv(Hue2Rgb(p, q, h - Turn \div 3) * 255, 1000) >>

\* getPlayerColor(playerId, variation), variation in thousandths
GetPlayerColor(playerId, variation) ==
    HslToRgb((((playerId * GoldenRatio) % Turn) + variation * 200) % Turn,
             850, 600)

(***************************************************************************)
(* The emitter (Emitter.js).  An emitter is an object whose position and   *)
(* baseColor are references to objects of a heap (a sequence of positions  *)
(* << x, y >> and color arrays << r, g, b >>; reference 0 is null).  An    *)
(* option of the constructor is a record [set, value]: set is FALSE for a  *)
(* key the options object does not have.  waveDensity is in waves per      *)
(* second, times are in milliseconds, gain in thousandths.                 *)
(***************************************************************************)
\* this.maxRadius = options.maxRadius || 300 (300 px)
DefaultMaxRadius == 900
\* this.waveDensity = options.waveDensity || 1.0
DefaultDensity == 1
\* const emitInterval = 1000 / this.waveDensity: the 1000 ms of a second
Second == 1000

Given(v) == [ set |-> TRUE, value |-> v ]

Absent(v) == [ set |-> FALSE, value |-> v ]

\* options.key || default
OrElse(option, falsy, default) ==
    IF option.set /\ option.value # falsy THEN option.value ELSE default

\* options.key !== undefined ? options.key : default
DefinedOr(option, default) ==
    IF option.set THEN option.value ELSE default

\* calculateBaseFrequency(), in hundredths of a Hz
CalculateBaseFrequency(playerId, type) ==
    LET baseFreq == 22000 + Div(22000 * (playerId % 8), 8)
    IN  CASE type = "thruster" -> baseFreq
          [] type = "weapon" -> Div(baseFreq * 3, 2)
          [] type = "explosion" -> Div(baseFreq, 2)
          [] OTHER -> baseFreq

\* getDefaultGain()
GetDefaultGain(type) ==
    CASE type = "thruster" -> 300
      [] type = "weapon" -> 700
      [] type = "explosion" -> 700
      [] OTHER -> 400

\* the heap after an object has been allocated unless the option gives one
Allocated(heap, option, object) ==
    IF option.set /\ option.value # 0 THEN heap ELSE Append(heap, object)

\* new Emitter(options): the emitter and the heap after the constructor
NewEmitter(options, heap) ==
    LET type == OrElse(options.type, "", "default")
        playerId == OrElse(options.playerId, 0, 0)
        heap1 == Allocated(heap, options.position, << 0, 0 >>)
        heap2 == Allocated(heap1, options.color,
                           GetPlayerColor(playerId,
                                          IF type = "weapon" THEN 900 ELSE 0))
    IN  [ emitter |->
            [ type |-> type,
              playerId |-> playerId,
              position |-> OrElse(options.position, 0, Len(heap1)),
              active |-> DefinedOr(options.active, TRUE),
              angle |-> OrElse(options.angle, 0, 0),
              spreadAngle |-> DefinedOr(options.spreadAngle, FullCircle),
              waveSpeed |-> OrElse(options.waveSpeed, 0, WaveSpeed),
              waveDensity |-> OrElse(options.waveDensity, 0, DefaultDensity),
              lastEmitTime |-> 0,
              baseColor |-> OrElse(options.color, 0, Len(heap2)),
              maxRadius |-> OrElse(options.maxRadius, 0, DefaultMaxRadius),
              baseFrequency |-> CalculateBaseFrequency(playerId, type),
              scaleType |-> OrElse(options.scaleType, "", "pentatonic"),
              gain |-> OrElse(options.gain, 0, GetDefaultGain(type)) ],
          objects |-> heap2 ]

\* update(position, angle, properties): position is a reference (0 when the
\* argument is falsy), angle an optional number, properties a record
Updated(e, position, angle, properties) ==
    LET moved == IF position # 0 THEN [ e EXCEPT !.position = position ]
                 ELSE e
        turned == IF angle.set THEN [ moved EXCEPT !.angle = angle.value ]
                  ELSE moved
    IN  [ key \in DOMAIN turned |->
            IF key \in DOMAIN properties THEN properties[key]
            ELSE turned[key] ]

\* a emitWave that returns at once: every call
AlwaysEmits(e) == TRUE

\* if (!this.active) return null: emitWave goes on only when active
Emits(e) == e.active

\* this.baseFrequency * (0.98 + Math.random() * 0.04), jitter in thousandths
Jittered(baseFrequency, jitter) == Div(baseFrequency * jitter, 1000)

\* the frequency of the wave: snapped unless the scale is chromatic
WaveFrequency(e, jitter) ==
    IF e.scaleType # "chromatic"
    THEN SnapToScale(Jittered(e.baseFrequency, jitter), e.scaleType)
    ELSE Jittered(e.baseFrequency, jitter)

\* createdAt: timeStep || performance.now()
CreatedAt(timeStep, t) == IF timeStep # 0 THEN timeStep ELSE t

\* a wave that keeps the emitter's own object
SharedRef(ref, copy) == ref

\* { ...this.position }, this.baseColor.slice(): the wave holds the copy
CopiedRef(ref, copy) == copy

\* shouldEmitWave(currentTime)
ShouldEmitWave(e, currentTime) ==
    IF ~e.active \/ e.waveDensity <= 0 THEN FALSE
    ELSE (currentTime - e.lastEmitTime) * e.waveDensity >= Second

(***************************************************************************)
(* State.                                                                  *)
(***************************************************************************)
VARIABLES
    grid,       \* WaveField.grid
    colors,     \* the color arrays the cells refer to
    held,       \* the cell objects of the grid replaced by the last update()
    timeStep,   \* WaveField.timeStep
    pre,        \* history: the field before the last call
    lastOp,     \* history: the last call and its arguments
    sinceTick,  \* history: energies after the last update(), while no
                \* addEnergy or addWavePulse has followed it
    steps,      \* history: number of calls made
    waves,      \* the wave objects, by identity (order of emission)
    gameWaves,      \* Game.travelingWaves: identities
    rendererWaves,  \* WaveRenderer.travelingWaves: identities
    pulsed,     \* history: the waves the last tick gave to addWavePulse
    ticks,      \* history: number of ticks of Game.update
    clock,      \* history: the simulated time, the sum of the ticks' deltaTime
    isRunning,      \* Game.isRunning
    lastTimestamp,  \* Game.lastTimestamp, in sixtieths of a second
    paused,         \* Game.paused
    fresh,      \* history: start() ran and no frame has followed it yet
    emitter,        \* an Emitter object
    objects,        \* the heap of position objects and color arrays
    waveObjects,    \* per emitted wave: the references it holds, and
                    \* history: its properties as they were when emitted
    performanceNow, \* performance.now(), in milliseconds
    before,     \* history: emitter, heap and collections before the last
                \* call of emitWave
    options,    \* history: the options the emitter was constructed with
    waveFields,     \* the WaveField objects constructed so far, by identity
    fieldOf,        \* the WaveField that Game, WaveRenderer and
                    \* AudioRenderer each refer to (this.waveField)
    origin,     \* history: the field when it was last left to itself, and
                \* the deltaTime passed to update() since then
    pitch       \* a frequency a caller holds, the scale it snaps it to,
                \* and history: the frequency given and the number of snaps

fieldVars == << grid, colors, held, timeStep >>

gameVars == << waves, gameWaves, rendererWaves, pulsed, ticks, clock >>

loopVars == << isRunning, lastTimestamp, paused, fresh >>

emitterVars == << emitter, objects, waveObjects, performanceNow, before,
           options >>

otherVars == << waveFields, fieldOf, origin, pitch >>

vars == << grid, colors, held, timeStep, pre, lastOp, sinceTick, steps,
           waves, gameWaves, rendererWaves, pulsed, ticks, clock,
           isRunning, lastTimestamp, paused, fresh,
           emitter, objects, waveObjects, performanceNow, before,
           options, waveFields, fieldOf, origin, pitch >>

\* the field as a value
Field ==
    [ grid |-> grid, colors |-> colors, held |-> held, timeStep |-> timeStep ]

SetField(F) ==
    /\ grid' = F.grid
    /\ colors' = F.colors
    /\ held' = F.held
    /\ timeStep' = F.timeStep

Energies(F) == [ i \in Cells |-> F.grid[i].energy ]

NoTick == [ valid |-> FALSE, energy |-> [ i \in Cells |-> 0 ] ]

\* an options object without keys: new Emitter()
NoOptions ==
    [ type |-> Absent(""), playerId |-> Absent(0), position |-> Absent(0),
      active |-> Absent(TRUE), angle |-> Absent(0),
      spreadAngle |-> Absent(0), waveSpeed |-> Absent(0),
      waveDensity |-> Absent(0), color |-> Absent(0),
      maxRadius |-> Absent(0), scaleType |-> Absent(""), gain |-> Absent(0) ]

\* the objects of the caller before the emitter is constructed: a position
\* (reference 1) and a color array (reference 2)
CallerObjects == << << CellWidth \div 2, CellWidth \div 2 >>, << 255, 0, 0 >> >>

\* the state of the emitter after new Emitter(opts), no wave emitted yet
Constructed(opts) ==
    LET made == NewEmitter(opts, CallerObjects)
    IN  /\ options = opts
        /\ emitter = made.emitter
        /\ objects = made.objects
        /\ waveObjects = << >>
        /\ performanceNow = 0
        /\ before = [ emitter |-> made.emitter, objects |-> made.objects,
                      waves |-> << >>, gameWaves |-> << >>,
                      rendererWaves |-> << >>, waveObjects |-> << >> ]

\* the wave system after the constructor of Game: one WaveField, which the
\* two renderers are given; the field has not been ticked
Assembled ==
    /\ waveFields = << NewWaveField(Width, Width, Resolution) >>
    /\ fieldOf = [ game |-> 1, renderer |-> 1, audio |-> 1 ]
    /\ origin = [ field |-> Field, total |-> 0 ]

\* a frequency as a caller holds it before it is snapped
Held(frequency, scaleType) ==
    [ frequency |-> frequency, scaleType |-> scaleType, given |-> frequency,
      snaps |-> 0 ]

(***************************************************************************)
(* Inputs.                                                                 *)
(***************************************************************************)
\* amounts given to addEnergy: negative, below 0.05, above it, above 1
Amounts == { -250, 30, 600, 1500 }

\* addEnergy's gridX, gridY and amount: two cells of the grid with every
\* amount, and coordinates outside the grid
EnergyInputs ==
    ({ << 0, 0 >>, << 1, 0 >> } \X Amounts)
      \cup { << << -1, 0 >>, 600 >>, << << 0, Resolution >>, 600 >> }

\* frequency and color of an injected tone
ToneA == [ frequency |-> 880, color |-> << 255, 0, 0 >> ]

ToneB == [ frequency |-> 220, color |-> << 0, 128, 255 >> ]

\* the centre of the field, the origin of the pulses
Centre == Width \div 2

\* radii of a pulse: the ring through the cells beside the centre cell, a
\* ring through its diagonal neighbours, and no ring
Radii == { 0, CellWidth, (3 * CellWidth) \div 2 }

\* emission angle and spreadAngle of a pulse
Directions == { << 0, FullCircle >>, << 0, 90 >>, << 270, 60 >>, << -45, 90 >> }

\* addWavePulse's radius, intensity and direction: every ring in every
\* direction at full intensity, and a faint and a negative omnidirectional
\* pulse
\* a radius just beyond the centres of the corner cells (14.33 px for 14.14)
NearRadius == (3 * CellWidth) \div 2 - 2

PulseInputs ==
    (Radii \X { 1000 } \X Directions)
      \cup ({ (3 * CellWidth) \div 2 } \X { -500, 60 } \X { << 0, FullCircle >> })
      \cup { << NearRadius, 1000, << -45, 90 >> >> }

(***************************************************************************)
(* The calls of the WaveField interface.                                   *)
(***************************************************************************)
Init ==
    /\ grid = NewField.grid
    /\ colors = NewField.colors
    /\ held = NewField.held
    /\ timeStep = NewField.timeStep
    /\ pre = NewField
    /\ lastOp = << "new" >>
    /\ sinceTick = NoTick
    /\ steps = 0
    /\ waves = << >>
    /\ gameWaves = << >>
    /\ rendererWaves = << >>
    /\ pulsed = {}
    /\ ticks = 0
    /\ clock = 0
    /\ isRunning = FALSE
    /\ lastTimestamp = 0
    /\ paused = FALSE
    /\ fresh = FALSE
    /\ Constructed(NoOptions)
    /\ Assembled
    /\ pitch = Held(BaseFreq, "major")

CallAddEnergy ==
    \E in \in EnergyInputs :
      LET t == in[1]
          amount == in[2]
      IN
        /\ steps < MaxSteps
        /\ AddEnergyFinite(Field, t[1], t[2], amount)
        /\ SetField(AddEnergy(Field, t[1], t[2], amount, ToneA.frequency,
                              ToneA.color))
        /\ pre' = Field
        /\ lastOp' = << "addEnergy", t[1], t[2], amount >>
        /\ sinceTick' = NoTick
        /\ steps' = steps + 1
        /\ UNCHANGED << gameVars, loopVars, emitterVars,
                        otherVars >>

CallAddWavePulse ==
    \E in \in PulseInputs :
      LET radius == in[1]
          intensity == in[2]
          d == in[3]
      IN
        /\ steps < MaxSteps
        /\ AddWavePulseFinite(Field, Centre, Centre, radius, intensity, d[1],
                              d[2])
        /\ SetField(AddWavePulse(Field, Centre, Centre, radius, intensity,
                                 ToneB.frequency, ToneB.color, d[1], d[2]))
        /\ pre' = Field
        /\ lastOp' = << "addWavePulse", radius, intensity, d[1], d[2] >>
        /\ sinceTick' = NoTick
        /\ steps' = steps + 1
        /\ UNCHANGED << gameVars, loopVars, emitterVars,
                        otherVars >>

CallUpdate ==
    \E deltaTime \in DeltaTimes :
        /\ steps < MaxSteps
        /\ SetField(Update(Field, deltaTime))
        /\ pre' = Field
        /\ lastOp' = << "update", deltaTime >>
        /\ sinceTick' = [ valid |-> TRUE,
                          energy |-> Energies(Update(Field, deltaTime)) ]
        /\ steps' = steps + 1
        /\ UNCHANGED << gameVars, loopVars, emitterVars,
                        otherVars >>

CallClear ==
    /\ steps < MaxSteps
    /\ SetField(Clear(Field))
    /\ pre' = Field
    /\ lastOp' = << "clear" >>
    /\ UNCHANGED sinceTick
    /\ steps' = steps + 1
    /\ UNCHANGED << gameVars, loopVars, emitterVars,
                        otherVars >>

Next == CallAddEnergy \/ CallAddWavePulse \/ CallUpdate \/ CallClear

Spec == Init /\ [][Next]_vars

(***************************************************************************)
(* The game: waves are registered by Game.onWaveEmitted (the onEmitWave    *)
(* callback of the ship's emitters) and advanced by Game.update.           *)
(***************************************************************************)
\* the position of the emitters: the centre of the first cell
EmitterPosition == << CellWidth \div 2, CellWidth \div 2 >>

\* maxRadius of an emitter: 20 px, 30 px and the default 300 px
MaxRadii == { 60, 90, 900 }

\* the intensity given to emitWave
EmitIntensities == { 20, 1000 }

\* the waves the weapon emitter hands to onWaveEmitted
WaveInputs ==
    { NewWave(EmitterPosition, 0, FullCircle, m, i, ToneA) :
          m \in MaxRadii, i \in EmitIntensities }

\* the wave the thruster emitter emits from updateShip
ThrusterWave == NewWave(EmitterPosition, 45, 60, 900, 300, ToneB)

\* onWaveEmitted(wave), as the callback of an emitWave outside Game.update
OnWaveEmitted ==
    \E wave \in WaveInputs :
        /\ Len(waves) < MaxWaves
        /\ waves' = Append(waves, wave)
        /\ gameWaves' = Append(gameWaves, Len(waves) + 1)
        /\ rendererWaves' = Append(rendererWaves, Len(waves) + 1)
        /\ pre' = Field
        /\ lastOp' = << "onWaveEmitted", Len(waves) + 1 >>
        /\ UNCHANGED << fieldVars, sinceTick, steps, pulsed, ticks, clock,
                        loopVars, emitterVars,
                        otherVars >>

\* Game.update(deltaTime): updateShip (which emits a thruster wave when
\* thrusting and shouldEmitWave allow it), updateTravelingWaves, the field's
\* update, the pulses of the waves, the removal of expired waves
GameTick(deltaTime, thrust) ==
    LET emits == thrust /\ Len(waves) < MaxWaves
        emitted == IF emits THEN Append(waves, ThrusterWave) ELSE waves
        game0 == IF emits THEN Append(gameWaves, Len(emitted))
                 ELSE gameWaves
        renderer0 == IF emits THEN Append(rendererWaves, Len(emitted))
                     ELSE rendererWaves
        heap == AdvancedHeap(emitted, renderer0, deltaTime)
        F == ForwardAll(Update(Field, deltaTime), game0, heap)
    IN
      /\ waves' = heap
      /\ rendererWaves' = RendererFilter(renderer0, heap)
      /\ SetField(F)
      /\ pulsed' = { w \in Members(game0) : Forwards(heap[w]) }
      /\ gameWaves' = GameFilter(game0, heap)
      /\ pre' = Field
      /\ lastOp' = << "tick", deltaTime >>
      /\ sinceTick' = NoTick
      /\ ticks' = ticks + 1
      /\ clock' = clock + deltaTime
      /\ UNCHANGED steps

\* Game.update called with a deltaTime the loop can pass
GameUpdate ==
    \E deltaTime \in DeltaTimes, thrust \in BOOLEAN :
        /\ ticks < MaxTicks
        /\ GameTick(deltaTime, thrust)
        /\ UNCHANGED << loopVars, emitterVars,
                        otherVars >>

GameNext == OnWaveEmitted \/ GameUpdate

GameSpec == Init /\ [][GameNext]_vars

(***************************************************************************)
(* Properties of the energy bounds.                                        *)
(***************************************************************************)
EnergyBounded(F) ==
    \A i \in Cells : F.grid[i].energy >= 0 /\ F.grid[i].energy <= EnergyCap

\* C1: after every update(deltaTime), whatever calls preceded it and for
\* every deltaTime the game loop passes, every cell has 0 <= energy <= 1.
EnergyBoundedAfterUpdate ==
    lastOp[1] = "update" => EnergyBounded(Field)

\* C2: after any addEnergy or addWavePulse, with any amount or intensity,
\* every cell has 0 <= energy <= 1.
EnergyBoundedAfterInjection ==
    lastOp[1] \in { "addEnergy", "addWavePulse" } => EnergyBounded(Field)

(***************************************************************************)
(* The field left to itself: some energy has been injected, and from then  *)
(* on the game loop only ticks, with a positive deltaTime.                  *)
(* requestAnimationFrame keeps scheduling the loop, so ticks keep coming:  *)
(* weak fairness on the tick.                                              *)
(***************************************************************************)
MaxDecayTicks == 120

\* frames of a thirtieth of a second, and frames long enough to be capped
DecayGaps == { 2, 2 * MaxDelta }

DecayDeltas == { CappedDelta(FrameDelta(g, 0)) : g \in DecayGaps }

\* the injections before the field is left alone: an amount for addEnergy
\* at cell (0, 0), and a radius, an intensity and a cone for addWavePulse
DecayInjections ==
    { << 1500, (3 * CellWidth) \div 2, 60, << 0, FullCircle >> >>,
      << 30, CellWidth, 1000, << 0, 90 >> >>,
      << -250, (3 * CellWidth) \div 2, 60, << 0, FullCircle >> >> }

DecayStarts ==
    { AddWavePulse(AddEnergy(NewField, 0, 0, in[1], ToneA.frequency,
                             ToneA.color),
                   Centre, Centre, in[2], in[3], ToneB.frequency, ToneB.color,
                   in[4][1], in[4][2]) : in \in DecayInjections }

DecayInit ==
    /\ \E F \in DecayStarts :
          /\ grid = F.grid
          /\ colors = F.colors
          /\ held = F.held
          /\ timeStep = F.timeStep
    /\ pre = NewField
    /\ lastOp = << "addWavePulse" >>
    /\ sinceTick = NoTick
    /\ steps = 0
    /\ waves = << >>
    /\ gameWaves = << >>
    /\ rendererWaves = << >>
    /\ pulsed = {}
    /\ ticks = 0
    /\ clock = 0
    /\ isRunning = FALSE
    /\ lastTimestamp = 0
    /\ paused = FALSE
    /\ fresh = FALSE
    /\ Constructed(NoOptions)
    /\ Assembled
    /\ pitch = Held(BaseFreq, "major")

DecayTick ==
    \E deltaTime \in DecayDeltas :
        /\ timeStep < MaxDecayTicks
        /\ SetField(Update(Field, deltaTime))
        /\ pre' = Field
        /\ lastOp' = << "update", deltaTime >>
        /\ sinceTick' = [ valid |-> TRUE,
                          energy |-> Energies(Update(Field, deltaTime)) ]
        /\ UNCHANGED << steps, gameVars, loopVars, emitterVars,
                        otherVars >>

DecayNext == DecayTick

DecaySpec == DecayInit /\ [][DecayNext]_vars /\ WF_vars(DecayTick)

AllQuiet == \A i \in Cells : grid[i].energy = 0

\* C3: with no addEnergy or addWavePulse call, and deltaTime > 0, no cell's
\* energy after a tick exceeds its energy after the tick before (nor, at the
\* first tick, the energy the cell started with, unless that was negative),
\* and every cell's energy eventually is exactly 0 and stays 0.
EnergyDecaysToZero ==
    /\ [][ lastOp'[1] = "update"
             => \A i \in Cells :
                   /\ sinceTick.valid
                        => grid'[i].energy <= sinceTick.energy[i]
                   /\ grid[i].energy >= 0
                        => grid'[i].energy <= grid[i].energy ]_vars
    /\ <>[]AllQuiet

\* two consecutive ticks, the second of which lowered an energy that is
\* still above zero: the decay is under way
EnergyDecaying ==
    /\ lastOp[1] = "update"
    /\ pre.timeStep > 0
    /\ \E i \in Cells : /\ grid[i].energy > 0
                        /\ grid[i].energy < pre.grid[i].energy

(***************************************************************************)
(* Properties of addWavePulse.  The calls of Spec all start from the       *)
(* centre of the field; lastOp holds their radius, intensity, angle and    *)
(* spread.                                                                 *)
(***************************************************************************)
PulseRadius == lastOp[2]

PulseIntensity == lastOp[3]

PulseAngle == lastOp[4]

PulseSpread == lastOp[5]

\* the direction of the centre of cell i seen from the origin of the pulse
CellAngle(i) ==
    Atan2(GridToWorld(CellY(i)) - Centre, GridToWorld(CellX(i)) - Centre)

CellDistanceSq(i) == DistanceSq(CellX(i), CellY(i), Centre, Centre)

\* the minimal angular difference of two directions, in 0 .. 180
MinimalAngleDiff(a, b) ==
    Min((a - b) % FullCircle, FullCircle - ((a - b) % FullCircle))

\* cell i lies on the ring: |distance - radius| < 0.2 * radius and
\* distance <= radius
OnRing(i, radius) ==
    /\ radius > 0
    /\ CellDistanceSq(i) <= radius * radius
    /\ 25 * CellDistanceSq(i) > 16 * radius * radius

\* cell i and its colour are as they were before the last call
CellUntouched(i) ==
    /\ grid[i] = pre.grid[i]
    /\ colors[grid[i].color] = pre.colors[pre.grid[i].color]

\* C4: a directional pulse (spreadAngle < 360) on an empty field leaves at
\* energy 0 every cell whose direction from the origin differs from the
\* emission angle by more than spreadAngle / 2, for every emission angle.
ConeExcludesOutsideCells ==
    ( /\ lastOp[1] = "addWavePulse"
      /\ PulseSpread < FullCircle
      /\ \A i \in Cells : pre.grid[i].energy = 0 )
    => \A i \in Cells :
          2 * MinimalAngleDiff(CellAngle(i), PulseAngle) > PulseSpread
             => grid[i].energy = 0

\* C5: addWavePulse changes only cells on the ring (|d - r| < 0.2 r and
\* d <= r); every other cell (energy, frequency, color, velocity, phase,
\* lastActive) and timeStep are unchanged.
PulseChangesOnlyRing ==
    lastOp[1] = "addWavePulse"
    => /\ timeStep = pre.timeStep
       /\ \A i \in Cells : ~OnRing(i, PulseRadius) => CellUntouched(i)

\* a pulse that changed a cell of a field in which a cell off the ring
\* already held energy
PulseChangedRing ==
    /\ lastOp[1] = "addWavePulse"
    /\ \E i \in Cells : OnRing(i, PulseRadius) /\ grid[i] # pre.grid[i]
    /\ \E j \in Cells : ~OnRing(j, PulseRadius) /\ pre.grid[j].energy > 0

\* the directionFactor of cell i: 1 on the axis of the cone, 0 at its edge
ConeFactor(i) ==
    IF PulseSpread < FullCircle
    THEN 1000 - Div(2000 * MinimalAngleDiff(CellAngle(i), PulseAngle),
                    PulseSpread)
    ELSE 1000

\* C6: a cell inside the cone and on the ring gains
\* intensity * intensityFactor * directionFactor, capped at 1.
PulseEnergyScaledByDirection ==
    lastOp[1] = "addWavePulse"
    => \A i \in Cells :
          ( /\ OnRing(i, PulseRadius)
            /\ 2 * MinimalAngleDiff(CellAngle(i), PulseAngle) <= PulseSpread )
          => grid[i].energy =
                Min(EnergyCap,
                    pre.grid[i].energy
                      + Div(CellIntensity(PulseIntensity, CellDistanceSq(i),
                                          PulseRadius) * ConeFactor(i),
                            1000))

(***************************************************************************)
(* Properties of update.                                                   *)
(***************************************************************************)
\* C7: update(deltaTime) advances the phase of every cell of the current
\* grid whose energy was above 0.01 by deltaTime * frequency / 20, modulo
\* 2 pi, and leaves the other phases alone.
PhaseAdvancesInCurrentGrid ==
    lastOp[1] = "update"
    => \A i \in Cells :
          grid[i].phase =
             IF pre.grid[i].energy > EnergyEpsilon
             THEN AdvancedPhase(pre.grid[i].phase, pre.grid[i].frequency,
                                lastOp[2])
             ELSE pre.grid[i].phase

\* the cell object i of the replaced grid, with the colour it shows
HeldView(F, i) == [ cell |-> F.held[i], color |-> F.colors[F.held[i].color] ]

\* C8: update is copy-then-swap with no mutable state shared between the
\* old grid and the new one: update leaves the cells of the grid it replaces
\* as they were, and a later write to the current grid does not show in them.
UpdateSharesNothing ==
    /\ lastOp[1] = "update"
       => \A i \in Cells :
             HeldView(Field, i) =
                [ cell |-> pre.grid[i],
                  color |-> pre.colors[pre.grid[i].color] ]
    /\ lastOp[1] \in { "addEnergy", "addWavePulse", "clear" }
       => \A i \in Cells : HeldView(Field, i) = HeldView(pre, i)

(***************************************************************************)
(* Properties of the traveling waves.                                      *)
(***************************************************************************)
\* the wave is still traveling: radius < maxRadius and intensity > 0.01
Traveling(wave) ==
    wave.radius < wave.maxRadius /\ wave.intensity > WaveEpsilon

\* C9: at the end of every tick a wave is in a consumer's collection exactly
\* if radius < maxRadius and intensity > 0.01, and the collections of Game
\* and of WaveRenderer hold the same waves.
CollectionsHoldTravelingWaves ==
    lastOp[1] = "tick"
    => /\ \A w \in DOMAIN waves :
             /\ w \in Members(gameWaves) <=> Traveling(waves[w])
             /\ w \in Members(rendererWaves) <=> Traveling(waves[w])
       /\ Members(gameWaves) = Members(rendererWaves)

\* C10: addWavePulse is never called for a wave that met the removal
\* predicate and was dropped from a collection, neither in the tick that
\* dropped it nor in a later one.
NoPulseAfterRemoval ==
    \A w \in pulsed : w \in Members(rendererWaves)

(***************************************************************************)
(* Properties of the tick of Game.update.                                  *)
(***************************************************************************)
\* the waves the last tick forwarded, in the order of Game.travelingWaves
PulsedIds ==
    SelectSeq([ k \in 1 .. Len(waves) |-> k ], LAMBDA w : w \in pulsed)

\* C11: within a tick the pulses of the waves enter the field first and
\* update() decays the grid afterwards, so that after the tick every cell
\* shows the energy of the pulses already decayed by that tick's update.
PulsesDecayedWithinTick ==
    lastOp[1] = "tick"
    => Energies(Field)
         = Energies(Update(ForwardAll(pre, PulsedIds, waves), lastOp[2]))

(***************************************************************************)
(* The life of one wave: a wave of the default maxRadius has been handed   *)
(* to onWaveEmitted, and from then on Game.update ticks with a deltaTime   *)
(* in (0, 0.1]; the intensity of a wave may be driven down from outside.   *)
(***************************************************************************)
\* simulated time, in sixtieths of a second, up to which ticks are explored
MaxLifeClock == 96

\* 1.5 s
LifeTime == (3 * 60) \div 2

\* an intensity below 0.01
DimIntensity == WaveEpsilon \div 2

LifeIntensities == { 300, 1000, 5000 }

\* frames of a twentieth of a second, and frames long enough to be capped
LifeGaps == { 3, 2 * MaxDelta }

LifeDeltas == { CappedDelta(FrameDelta(g, 0)) : g \in LifeGaps }

\* the emitter is far from the grid, so that the wave never reaches a cell
\* and the field stays as it is
LifePosition == << -DefaultMaxRadius, -DefaultMaxRadius >>

LifeWave(intensity) ==
    NewWave(LifePosition, 0, FullCircle, DefaultMaxRadius, intensity, ToneA)

LifeInit ==
    /\ grid = NewField.grid
    /\ colors = NewField.colors
    /\ held = NewField.held
    /\ timeStep = NewField.timeStep
    /\ pre = NewField
    /\ lastOp = << "onWaveEmitted", 1 >>
    /\ sinceTick = NoTick
    /\ steps = 0
    /\ \E intensity \in LifeIntensities : waves = << LifeWave(intensity) >>
    /\ gameWaves = << 1 >>
    /\ rendererWaves = << 1 >>
    /\ pulsed = {}
    /\ ticks = 0
    /\ clock = 0
    /\ isRunning = FALSE
    /\ lastTimestamp = 0
    /\ paused = FALSE
    /\ fresh = FALSE
    /\ Constructed(NoOptions)
    /\ Assembled
    /\ pitch = Held(BaseFreq, "major")

LifeTick ==
    \E deltaTime \in LifeDeltas :
        /\ clock < MaxLifeClock
        /\ GameTick(deltaTime, FALSE)
        /\ UNCHANGED << loopVars, emitterVars,
                        otherVars >>

\* wave.intensity is set below 0.01 from outside the game
DimWave ==
    \E w \in Members(gameWaves) \cup Members(rendererWaves) :
        /\ waves[w].intensity > DimIntensity
        /\ waves' = [ waves EXCEPT ![w].intensity = DimIntensity ]
        /\ lastOp' = << "dim", w >>
        /\ UNCHANGED << fieldVars, pre, sinceTick, steps, gameWaves,
                        rendererWaves, pulsed, ticks, clock, loopVars,
                        emitterVars,
                        otherVars >>

LifeNext == LifeTick \/ DimWave

LifeSpec == LifeInit /\ [][LifeNext]_vars

InCollection(w) == w \in Members(gameWaves) \cup Members(rendererWaves)

\* C12: a wave with maxRadius 300 and speed 200 is in no collection once the
\* simulated time since its emission has reached 1.5 s, whatever its
\* intensity and the deltaTime values in (0, 0.1]; and a wave whose
\* intensity is below 0.01 is in no collection after the next tick.
WaveRemovedInTime ==
    /\ clock >= LifeTime => ~InCollection(1)
    /\ lastOp[1] = "tick"
       => \A w \in DOMAIN waves :
             waves[w].intensity < WaveEpsilon => ~InCollection(w)

(***************************************************************************)
(* The driving loop: start() stores performance.now(), and every animation *)
(* frame calls gameLoop with the timestamp of the frame.  The timestamps   *)
(* of successive frames increase; the timestamp of the first frame after   *)
(* start() is the time at which that frame began, which is not later than  *)
(* the frame's callbacks and may be earlier than the performance.now()     *)
(* that start() read while the frame was already under way.                *)
(***************************************************************************)
\* the largest frame timestamp explored, in sixtieths of a second
MaxTimestamp == 16

\* the values performance.now() gives start()
StartTimes == { 1, 2 }

\* start()
StartEffect(now) ==
    IF ~isRunning
    THEN /\ isRunning' = TRUE
         /\ lastTimestamp' = now
         /\ fresh' = TRUE
    ELSE UNCHANGED << isRunning, lastTimestamp, fresh >>

\* start(), from the click on the start button
Start ==
    \E now \in StartTimes :
        /\ ~isRunning
        /\ StartEffect(now)
        /\ lastOp' = << "start", now >>
        /\ UNCHANGED << fieldVars, pre, sinceTick, steps, gameVars, paused,
                        emitterVars,
                        otherVars >>

\* togglePause(), from the "p" key
TogglePause ==
    \E now \in StartTimes :
        /\ paused' = ~paused
        /\ IF paused /\ ~isRunning
           THEN StartEffect(now)
           ELSE UNCHANGED << isRunning, lastTimestamp, fresh >>
        /\ lastOp' = << "togglePause" >>
        /\ UNCHANGED << fieldVars, pre, sinceTick, steps, gameVars,
                        emitterVars,
                        otherVars >>

\* timestamp - this.lastTimestamp for the frames the browser can deliver
LoopGaps == IF fresh THEN FrameGaps ELSE { g \in FrameGaps : g > 0 }

\* gameLoop(timestamp)
GameLoop ==
    \E gap \in LoopGaps, thrust \in BOOLEAN :
      LET timestamp == lastTimestamp + gap
          deltaTime == FrameDelta(timestamp, lastTimestamp)
      IN
        /\ isRunning
        /\ timestamp <= MaxTimestamp
        /\ lastTimestamp' = timestamp
        /\ fresh' = FALSE
        /\ UNCHANGED << isRunning, paused, emitterVars,
                        otherVars >>
        /\ IF ~paused
           THEN /\ ticks < MaxTicks
                /\ GameTick(CappedDelta(deltaTime), thrust)
           ELSE /\ ~thrust
                /\ lastOp' = << "frame", deltaTime >>
                /\ UNCHANGED << fieldVars, pre, sinceTick, steps, gameVars >>

\* onWaveEmitted(wave), from the weapon fired between two frames
WeaponFired ==
    /\ isRunning
    /\ OnWaveEmitted

LoopNext == Start \/ TogglePause \/ GameLoop \/ WeaponFired

LoopSpec == Init /\ [][LoopNext]_vars

\* the radius wave w had before the step: its starting radius if the step
\* emitted it
RadiusBefore(w) ==
    IF w \in DOMAIN waves THEN waves[w].radius ELSE StartRadius

\* C13: no step of the game lowers the radius of a wave, for every deltaTime
\* the loop computes from the frame timestamps.
RadiusNeverDecreases ==
    [][ \A w \in DOMAIN waves' : waves'[w].radius >= RadiusBefore(w) ]_vars

\* C14: every deltaTime the loop passes to updateShip, updateTravelingWaves
\* and WaveField.update lies in [0, 0.1], for every sequence of frame
\* timestamps, the first frame after start() and after a pause included.
DeltaTimeInRange ==
    lastOp[1] = "tick" => lastOp[2] >= 0 /\ lastOp[2] <= MaxDelta

(***************************************************************************)
(* The emitter: an emitter has been constructed with onEmitWave set to     *)
(* Game.onWaveEmitted, and from then on it is activated, deactivated,      *)
(* updated and asked for waves while time passes; the waves it emitted are *)
(* advanced, and the owner of an object the emitter refers to may change   *)
(* that object in place.                                                   *)
(***************************************************************************)
\* calls made on the emitter and its waves after the constructor
MaxEmitterSteps == 4

\* Game.createShipEmitters: the thruster emitter
ThrusterOptions ==
    [ NoOptions EXCEPT
        !.type = Given("thruster"), !.playerId = Given(0),
        !.position = Given(1), !.active = Given(FALSE),
        !.spreadAngle = Given(90), !.waveDensity = Given(16),
        !.scaleType = Given("pentatonic") ]

\* Game.createShipEmitters: the weapon emitter (maxRadius 1600 px)
WeaponOptions ==
    [ NoOptions EXCEPT
        !.type = Given("weapon"), !.playerId = Given(0),
        !.position = Given(1), !.active = Given(FALSE),
        !.spreadAngle = Given(20), !.waveDensity = Given(0),
        !.gain = Given(500), !.scaleType = Given("minorPentatonic"),
        !.maxRadius = Given(4800) ]

\* an active emitter of ten waves per second with a color of its owner, no
\* gain, no spread and no snapping
PlainOptions ==
    [ NoOptions EXCEPT
        !.position = Given(1), !.active = Given(TRUE),
        !.spreadAngle = Given(0), !.waveDensity = Given(10),
        !.color = Given(2), !.gain = Given(0),
        !.scaleType = Given("chromatic") ]

\* an active explosion emitter of another player, on the harmonic minor
\* scale
ExplosionOptions ==
    [ NoOptions EXCEPT
        !.type = Given("explosion"), !.playerId = Given(3),
        !.scaleType = Given("harmonicMinor") ]

EmitterOptions ==
    { NoOptions, ThrusterOptions, WeaponOptions, PlainOptions,
      ExplosionOptions }

\* 0.98 + Math.random() * 0.04, in thousandths
Jitters == { 980, 1019 }

\* the time that passes between two calls, in milliseconds
TimeSteps == { 50, 950 }

\* emitWave(intensity = 1.0, timeStep): the default intensity
DefaultIntensity == 1000

\* the arguments of update(position, angle, properties) in Game.fireWeapon
\* and Game.updateShip: a new position object or none, an angle or none,
\* and the properties
NewPosition == << CellWidth + CellWidth \div 2, CellWidth \div 2 >>

UpdateInputs ==
    { [ angle |-> Absent(0), properties |-> << >> ],
      [ angle |-> Given(90),
        properties |-> [ spreadAngle |-> 60, gain |-> 450 ] ] }

EmitterInit ==
    /\ grid = NewField.grid
    /\ colors = NewField.colors
    /\ held = NewField.held
    /\ timeStep = NewField.timeStep
    /\ pre = NewField
    /\ lastOp = << "new Emitter" >>
    /\ sinceTick = NoTick
    /\ steps = 0
    /\ waves = << >>
    /\ gameWaves = << >>
    /\ rendererWaves = << >>
    /\ pulsed = {}
    /\ ticks = 0
    /\ clock = 0
    /\ isRunning = FALSE
    /\ lastTimestamp = 0
    /\ paused = FALSE
    /\ fresh = FALSE
    /\ \E opts \in EmitterOptions : Constructed(opts)
    /\ Assembled
    /\ pitch = Held(BaseFreq, "major")

\* what a call of emitWave could change
Snapshot ==
    [ emitter |-> emitter, objects |-> objects, waves |-> waves,
      gameWaves |-> gameWaves, rendererWaves |-> rendererWaves,
      waveObjects |-> waveObjects ]

\* emitWave(intensity, time), with the callback Game.onWaveEmitted; the
\* fifth entry of lastOp is the wave returned, 0 for null, the sixth the
\* place the call was made from
EmitEffect(intensity, time, jitter, caller) ==
    LET w == Len(waves) + 1
        positionCopy == Len(objects) + 1
        colorCopy == Len(objects) + 2
        frequency == WaveFrequency(emitter, jitter)
        tone == [ frequency |-> Div(frequency, 100),
                  color |-> objects[emitter.baseColor] ]
        wave == [ NewWave(objects[emitter.position], emitter.angle,
                          emitter.spreadAngle, emitter.maxRadius,
                          intensity, tone)
                    EXCEPT !.speed = emitter.waveSpeed ]
    IN
      /\ steps < MaxEmitterSteps
      /\ steps' = steps + 1
      /\ before' = Snapshot
      /\ IF ~Emits(emitter)
         THEN /\ lastOp' = << "emitWave", intensity, time, jitter, 0,
                              caller >>
              /\ UNCHANGED << emitter, objects, waveObjects, waves,
                              gameWaves, rendererWaves >>
         ELSE /\ Len(waves) < MaxWaves
              /\ objects' = objects \o << objects[emitter.position],
                                          objects[emitter.baseColor] >>
              /\ waveObjects' =
                   Append(waveObjects,
                          [ position |->
                              CopiedRef(emitter.position, positionCopy),
                            color |->
                              CopiedRef(emitter.baseColor, colorCopy),
                            frequency |-> frequency,
                            gain |-> Div(emitter.gain * intensity, 1000),
                            createdAt |->
                              CreatedAt(time, performanceNow),
                            emitted |->
                              [ position |-> objects[emitter.position],
                                color |-> objects[emitter.baseColor],
                                angle |-> emitter.angle,
                                spreadAngle |-> emitter.spreadAngle,
                                frequency |-> frequency,
                                maxRadius |-> emitter.maxRadius ] ])
              /\ waves' = Append(waves, wave)
              /\ gameWaves' = Append(gameWaves, w)
              /\ rendererWaves' = Append(rendererWaves, w)
              /\ emitter' =
                   [ emitter EXCEPT
                       !.lastEmitTime = CreatedAt(time, performanceNow) ]
              /\ lastOp' = << "emitWave", intensity, time, jitter, w,
                              caller >>
      /\ UNCHANGED << fieldVars, pre, sinceTick, pulsed, ticks, clock,
                      loopVars, performanceNow, options,
                        otherVars >>

\* emitWave(intensity, time) called with the current time or with 0
EmitWave ==
    \E time \in { 0, performanceNow }, jitter \in Jitters :
        EmitEffect(DefaultIntensity, time, jitter, "call")

\* Game.updateShip: if (shouldEmitWave(performance.now()))
\*                      emitWave(intensity, performance.now())
LoopEmit ==
    \E jitter \in Jitters :
        /\ ShouldEmitWave(emitter, performanceNow)
        /\ EmitEffect(DefaultIntensity, performanceNow, jitter,
                      "updateShip")

\* update(position, angle, properties)
EmitterUpdate ==
    \E moves \in BOOLEAN, input \in UpdateInputs :
        /\ steps < MaxEmitterSteps
        /\ steps' = steps + 1
        /\ objects' = IF moves THEN Append(objects, NewPosition) ELSE objects
        /\ emitter' = Updated(emitter,
                              IF moves THEN Len(objects) + 1 ELSE 0,
                              input.angle, input.properties)
        /\ lastOp' = << "update", moves, input >>
        /\ UNCHANGED << fieldVars, pre, sinceTick, gameVars, loopVars,
                        waveObjects, performanceNow, before, options,
                        otherVars >>

\* activate()
Activate ==
    /\ steps < MaxEmitterSteps
    /\ steps' = steps + 1
    /\ emitter' = [ emitter EXCEPT !.active = TRUE ]
    /\ lastOp' = << "activate" >>
    /\ UNCHANGED << fieldVars, pre, sinceTick, gameVars, loopVars, objects,
                    waveObjects, performanceNow, before, options,
                        otherVars >>

\* deactivate()
Deactivate ==
    /\ steps < MaxEmitterSteps
    /\ steps' = steps + 1
    /\ emitter' = [ emitter EXCEPT !.active = FALSE ]
    /\ lastOp' = << "deactivate" >>
    /\ UNCHANGED << fieldVars, pre, sinceTick, gameVars, loopVars, objects,
                    waveObjects, performanceNow, before, options,
                        otherVars >>

\* time passes
Elapse ==
    \E d \in TimeSteps :
        /\ steps < MaxEmitterSteps
        /\ steps' = steps + 1
        /\ performanceNow' = performanceNow + d
        /\ lastOp' = << "elapse", d >>
        /\ UNCHANGED << fieldVars, pre, sinceTick, gameVars, loopVars,
                        emitter, objects, waveObjects, before, options,
                        otherVars >>

\* a wave changes as updateTravelingWaves changes it: radius and intensity
ChangeWave ==
    \E w \in DOMAIN waves :
        /\ steps < MaxEmitterSteps
        /\ steps' = steps + 1
        /\ waves' = [ waves EXCEPT ![w] = AdvancedWave(@, MaxDelta) ]
        /\ lastOp' = << "changeWave", w >>
        /\ UNCHANGED << fieldVars, pre, sinceTick, gameWaves, rendererWaves,
                        pulsed, ticks, clock, loopVars, emitterVars,
                        otherVars >>

\* the owner of the emitter changes, in place, the position object or the
\* color array the emitter refers to
ChangeObject ==
    \E ref \in { emitter.position, emitter.baseColor } :
        /\ steps < MaxEmitterSteps
        /\ steps' = steps + 1
        /\ objects' = [ objects EXCEPT ![ref] = [ @ EXCEPT ![1] = @ + 1 ] ]
        /\ lastOp' = << "changeObject", ref >>
        /\ UNCHANGED << fieldVars, pre, sinceTick, gameVars, loopVars,
                        emitter, waveObjects, performanceNow, before,
                        options,
                        otherVars >>

EmitterNext ==
    \/ EmitWave
    \/ LoopEmit
    \/ EmitterUpdate
    \/ Activate
    \/ Deactivate
    \/ Elapse
    \/ ChangeWave
    \/ ChangeObject

EmitterSpec == EmitterInit /\ [][EmitterNext]_vars

(***************************************************************************)
(* Properties of the emitter.                                              *)
(***************************************************************************)
\* the times shouldEmitWave is asked at after an emission at time t
QueryTimes(t) == { t + k : k \in { 0, 50, 62, 63, 99, 100, 999, 1000, 2000 } }

\* the emitter emitted a wave in the last call
Emitted == lastOp[1] = "emitWave" /\ lastOp[5] # 0

\* C15: for an active emitter with waveDensity d > 0 whose last emission
\* was emitWave(_, t), for any t >= 0 and t = 0 included, shouldEmitWave(t')
\* is false exactly while t' - t < 1000 / d and true otherwise.
EmitIntervalFromTimeStep ==
    Emitted /\ emitter.active /\ emitter.waveDensity > 0
        => \A q \in QueryTimes(lastOp[3]) :
              ShouldEmitWave(emitter, q)
                  <=> (q - lastOp[3]) * emitter.waveDensity >= Second

\* C16: emitWave on an inactive emitter returns null and changes nothing:
\* the emitter (lastEmitTime and every other property), the objects, the
\* waves and the collections the callback feeds are as before the call.
InactiveEmitsNothing ==
    lastOp[1] = "emitWave" /\ ~before.emitter.active
        => /\ lastOp[5] = 0
           /\ Snapshot = before

\* an inactive emitter that had emitted before was asked for a wave at a
\* later time and returned null
InactiveAsked ==
    /\ lastOp[1] = "emitWave"
    /\ ~before.emitter.active
    /\ lastOp[5] = 0
    /\ Len(waves) > 0
    /\ performanceNow > emitter.lastEmitTime

\* the properties of the emitter that an option sets, by the option's key
OptionValue(e) ==
    [ type |-> e.type, playerId |-> e.playerId, position |-> e.position,
      active |-> e.active, angle |-> e.angle, spreadAngle |-> e.spreadAngle,
      waveSpeed |-> e.waveSpeed, waveDensity |-> e.waveDensity,
      color |-> e.baseColor, maxRadius |-> e.maxRadius,
      scaleType |-> e.scaleType, gain |-> e.gain ]

\* C17: after the constructor every option that was given is held exactly,
\* falsy values such as waveDensity = 0, gain = 0 and spreadAngle = 0
\* included, and an emitter given waveDensity = 0 has shouldEmitWave false
\* at every time.
OptionsHeldExactly ==
    /\ lastOp[1] = "new Emitter"
          => \A key \in DOMAIN options :
                options[key].set
                    => OptionValue(emitter)[key] = options[key].value
    /\ options.waveDensity = Given(0)
          => \A q \in QueryTimes(performanceNow) : ~ShouldEmitWave(emitter, q)

\* the wave as it reads now: its position and color through the references
\* it holds
WaveView(w) ==
    [ position |-> objects[waveObjects[w].position],
      color |-> objects[waveObjects[w].color],
      angle |-> waves[w].angle,
      spreadAngle |-> waves[w].spreadAngle,
      frequency |-> waveObjects[w].frequency,
      maxRadius |-> waves[w].maxRadius ]

\* C18: an emitted wave is a snapshot: whatever is done later to the
\* emitter, to the objects it refers to or to a wave, the position, angle,
\* spreadAngle, color, frequency and maxRadius of every wave are as they
\* were when it was emitted, and a wave shares no object with the emitter
\* or with another wave.
WavesAreSnapshots ==
    \A w \in DOMAIN waveObjects :
        /\ WaveView(w) = waveObjects[w].emitted
        /\ waveObjects[w].position # emitter.position
        /\ waveObjects[w].color # emitter.baseColor
        /\ \A v \in DOMAIN waveObjects \ { w } :
              /\ waveObjects[v].position # waveObjects[w].position
              /\ waveObjects[v].color # waveObjects[w].color

\* a wave that has grown still reads as emitted although the emitter has
\* since moved to another position object, turned and changed its spread
SnapshotOutlivesEmitter ==
    \E w \in DOMAIN waveObjects :
        /\ waves[w].radius > StartRadius
        /\ WaveView(w) = waveObjects[w].emitted
        /\ objects[emitter.position] # waveObjects[w].emitted.position
        /\ emitter.angle # waveObjects[w].emitted.angle
        /\ emitter.spreadAngle # waveObjects[w].emitted.spreadAngle

\* the semitone nearest to a frequency, relative to A4
NoteOf(frequency) == (Semitones(frequency) + 50) \div 100

\* the notes of a scale over the octaves around A4
ScaleNotes(scaleType) ==
    { m \in -36 .. 36 : (m % 12) \in Members(ScalePattern(scaleType)) }

\* the frequency the last emitWave handed to snapToScale
LastUnsnapped == Jittered(before.emitter.baseFrequency, lastOp[4])

\* C19: snapToScale returns the note of the scale, over all octaves, whose
\* distance in semitones to the input is minimal, also when that note is
\* the root of the next octave up.
SnapsToNearestNote ==
    Emitted /\ before.emitter.scaleType # "chromatic"
        => \A m \in ScaleNotes(before.emitter.scaleType) :
              Abs(100 * NoteOf(waveObjects[lastOp[5]].frequency)
                    - Semitones(LastUnsnapped))
                <= Abs(100 * m - Semitones(LastUnsnapped))

\* C20: every wave emitted by an emitter with a non-chromatic scaleType
\* has a frequency that is a note of that scale: it lies on a semitone
\* (within two hundredths, the rounding of the fixed-point logarithm) whose
\* offset from 440 Hz, mod 12, is one of the scale's offsets.
EmittedOnScale ==
    emitter.scaleType # "chromatic"
        => \A w \in DOMAIN waveObjects :
              /\ Abs(Semitones(waveObjects[w].frequency)
                       - 100 * NoteOf(waveObjects[w].frequency)) <= 2
              /\ (NoteOf(waveObjects[w].frequency) % 12)
                    \in Members(ScalePattern(emitter.scaleType))

\* a jittered frequency off the scale was snapped to another frequency
SnappedOntoScale ==
    /\ Emitted
    /\ emitter.scaleType # "chromatic"
    /\ waveObjects[lastOp[5]].frequency # LastUnsnapped
    /\ Abs(Semitones(LastUnsnapped) - 100 * NoteOf(LastUnsnapped)) > 2

(***************************************************************************)
(* snapToScale on its own: a caller holds a frequency, snaps it to a scale *)
(* and snaps the result again.                                             *)
(***************************************************************************)
\* the frequencies given are 100 Hz, 109.97 Hz, ... : MaxPitches steps
MaxPitches == 80
\* calls of snapToScale on one frequency
MaxSnaps == 2

\* the frequencies given, in hundredths of a Hz: from 100 Hz to beyond
\* 880 Hz, in steps of 9.97 Hz
Frequencies == { 10000 + 997 * k : k \in 0 .. MaxPitches }

\* the scaleType given: every scale of the table, and a name it lacks
ScaleTypes == DOMAIN Scales \cup { "blues" }

ScaleInit ==
    /\ grid = NewField.grid
    /\ colors = NewField.colors
    /\ held = NewField.held
    /\ timeStep = NewField.timeStep
    /\ pre = NewField
    /\ lastOp = << "new" >>
    /\ sinceTick = NoTick
    /\ steps = 0
    /\ waves = << >>
    /\ gameWaves = << >>
    /\ rendererWaves = << >>
    /\ pulsed = {}
    /\ ticks = 0
    /\ clock = 0
    /\ isRunning = FALSE
    /\ lastTimestamp = 0
    /\ paused = FALSE
    /\ fresh = FALSE
    /\ Constructed(NoOptions)
    /\ Assembled
    /\ \E frequency \in Frequencies, scaleType \in ScaleTypes :
          pitch = Held(frequency, scaleType)

\* frequency = snapToScale(frequency, scaleType)
Snap ==
    /\ pitch.snaps < MaxSnaps
    /\ pitch' = [ pitch EXCEPT
                    !.frequency = SnapToScale(@, pitch.scaleType),
                    !.snaps = @ + 1 ]
    /\ lastOp' = << "snapToScale", pitch.frequency, pitch.scaleType >>
    /\ UNCHANGED << fieldVars, pre, sinceTick, steps, gameVars, loopVars,
                    emitterVars, waveFields, fieldOf, origin >>

ScaleNext == Snap

ScaleSpec == ScaleInit /\ [][ScaleNext]_vars

\* C21: snapToScale is idempotent: for every frequency and every scale,
\* snapping the result of snapToScale again returns it unchanged.
SnapIsIdempotent ==
    lastOp[1] = "snapToScale" /\ pitch.snaps = MaxSnaps
        => pitch.frequency = lastOp[2]

\* a frequency off the scale was snapped to another frequency, and that
\* frequency was snapped again
SnappedTwice ==
    /\ lastOp[1] = "snapToScale"
    /\ pitch.snaps = MaxSnaps
    /\ lastOp[2] # pitch.given
    /\ pitch.frequency = lastOp[2]

(***************************************************************************)
(* Properties of the lookups and of clear.                                 *)
(***************************************************************************)
\* grid coordinates around the grid, and world coordinates around the field
GridProbes == -1 .. Resolution

WorldProbes == { -1, 0, Width - 1, Width, Width + CellWidth }

\* C22: for grid coordinates outside [0, resolution) x [0, resolution) and
\* world positions outside the field, getCell and getCellAtPosition return
\* null and addEnergy leaves the whole field unchanged; for coordinates
\* inside, getCell returns the cell at row-major index y * resolution + x.
OutOfRangeIsNull ==
    /\ \A x \in GridProbes, y \in GridProbes :
          IF x \in 0 .. (Resolution - 1) /\ y \in 0 .. (Resolution - 1)
          THEN GetCell(Field, x, y) = grid[y * Resolution + x]
          ELSE GetCell(Field, x, y) = "null"
    /\ \A worldX \in WorldProbes, worldY \in WorldProbes :
          worldX < 0 \/ worldX >= Width \/ worldY < 0 \/ worldY >= Width
              => GetCellAtPosition(Field, worldX, worldY) = "null"
    /\ lastOp[1] = "addEnergy"
         /\ ~(lastOp[2] \in 0 .. (Resolution - 1)
                /\ lastOp[3] \in 0 .. (Resolution - 1))
              => Field = pre

\* addEnergy was called with coordinates outside a grid that holds energy
OutsideInjection ==
    /\ lastOp[1] = "addEnergy"
    /\ lastOp[2] < 0 \/ lastOp[3] >= Resolution
    /\ \E i \in Cells : grid[i].energy > 0

\* C23: clear() sets every cell's energy to 0, frequency to 440, color to
\* [0, 0, 0] and phase to 0, and leaves every cell's velocity and
\* lastActive, the grid length and timeStep unchanged.
ClearKeepsVelocity ==
    lastOp[1] = "clear"
        => /\ DOMAIN grid = DOMAIN pre.grid
           /\ timeStep = pre.timeStep
           /\ \A i \in Cells :
                 /\ grid[i].energy = 0
                 /\ grid[i].frequency = DefaultFrequency
                 /\ colors[grid[i].color] = Black
                 /\ grid[i].phase = 0
                 /\ grid[i].velocity = pre.grid[i].velocity
                 /\ grid[i].lastActive = pre.grid[i].lastActive

\* clear() ran over a cell that had energy, a color and a velocity
ClearedMovingCell ==
    /\ lastOp[1] = "clear"
    /\ \E i \in Cells :
          /\ pre.grid[i].energy > 0
          /\ pre.colors[pre.grid[i].color] # Black
          /\ pre.grid[i].lastActive > 0
          /\ pre.grid[i].velocity # [ x |-> 0, y |-> 0 ]
          /\ grid[i].velocity = pre.grid[i].velocity

(***************************************************************************)
(* Properties that compare addWavePulse with addEnergy and bound what a    *)
(* pulse leaves in a cell.                                                 *)
(***************************************************************************)
\* this.maxVelocity = 5.0
MaxVelocity == 5000

\* the last pulse hit cell i
HitByPulse(i) ==
    PulseHits(CellX(i), CellY(i), Centre, Centre, PulseRadius,
              NormalizeAngle(PulseAngle), PulseSpread)

\* the cellIntensity the last pulse had at cell i
PulseCellIntensity(i) ==
    CellIntensity(PulseIntensity, CellDistanceSq(i), PulseRadius)

\* the field addEnergy would have left, called on cell i of the field before
\* the last pulse with the pulse's cellIntensity, frequency and color
InjectedInstead(i) ==
    AddEnergy(pre, CellX(i), CellY(i), PulseCellIntensity(i), ToneB.frequency,
              ToneB.color)

\* C27: for a cell with energy c >= 0 hit with cellIntensity a > 0.05, the
\* frequency and color addWavePulse leaves equal those addEnergy(..., a, ...)
\* leaves on the same cell, also when c + a exceeds 1.
PulseBlendsLikeInjection ==
    lastOp[1] = "addWavePulse"
    => \A i \in Cells :
          ( /\ HitByPulse(i)
            /\ pre.grid[i].energy >= 0
            /\ PulseCellIntensity(i) > BlendThreshold )
          => /\ grid[i].frequency = InjectedInstead(i).grid[i].frequency
             /\ colors[grid[i].color] =
                   InjectedInstead(i).colors[InjectedInstead(i).grid[i].color]

\* the directionFactor the last pulse computed for cell i
PulseDirectionFactor(i) ==
    CellDirectionFactor(CellX(i), CellY(i), Centre, Centre,
                        NormalizeAngle(PulseAngle), PulseSpread)

\* C29: with pulse intensity in [0, 1], every cell's velocity magnitude
\* stays at or below maxVelocity 5.0, and the directionFactor of a pulse lies
\* in [0, 1] for every angle and every spreadAngle in (0, 360].
VelocityBounded ==
    lastOp[1] = "addWavePulse" /\ PulseIntensity \in 0 .. 1000
    => \A i \in Cells :
          /\ grid[i].velocity.x * grid[i].velocity.x
               + grid[i].velocity.y * grid[i].velocity.y
                 <= MaxVelocity * MaxVelocity
          /\ PulseDirectionFactor(i) \in 0 .. 1000

(***************************************************************************)
(* The WaveField objects of a session: the one the Game constructor builds *)
(* and hands to both renderers, the ones the resize handler builds, and    *)
(* fields constructed with other resolutions.  waveFields holds them in    *)
(* order of construction, fieldOf the index of the field each of Game,     *)
(* WaveRenderer and AudioRenderer holds.  The window keeps its size, so    *)
(* the cells of a new field are those of the field it replaces.            *)
(***************************************************************************)
\* the WaveField objects constructed in a behaviour
MaxFields == 3

\* the resolutions a WaveField is constructed with
Resolutions == { 0, 1, Resolution }

\* new WaveField(width, height, resolution): the constructor validates
\* nothing, and the object exists whatever the resolution
Construct ==
    \E resolution \in Resolutions :
        /\ Len(waveFields) < MaxFields
        /\ waveFields' =
              Append(waveFields, NewWaveField(Width, Width, resolution))
        /\ pre' = Field
        /\ lastOp' = << "new WaveField", resolution >>
        /\ UNCHANGED << fieldVars, sinceTick, steps, gameVars, loopVars,
                        emitterVars, fieldOf, origin, pitch >>

\* the resize handler: this.waveField = new WaveField(canvas.width,
\* canvas.height, oldField.resolution); the renderers are not told
Resize ==
    /\ Len(waveFields) < MaxFields
    /\ waveFields' =
          Append(waveFields,
                 NewWaveField(Width, Width,
                              waveFields[fieldOf.game].resolution))
    /\ fieldOf' = [ fieldOf EXCEPT !.game = Len(waveFields) + 1 ]
    /\ SetField(NewField)
    /\ pre' = Field
    /\ lastOp' = << "resize", Len(waveFields) + 1 >>
    /\ sinceTick' = NoTick
    /\ UNCHANGED << steps, gameVars, loopVars, emitterVars, origin, pitch >>

CanvasNext == GameUpdate \/ Resize \/ Construct

CanvasSpec == Init /\ [][CanvasNext]_vars

\* C24: constructing a WaveField with resolution 0 is rejected; no field
\* with an empty grid is ever created.
NoEmptyField ==
    \A k \in 1 .. Len(waveFields) :
        /\ waveFields[k].resolution # 0
        /\ waveFields[k].length > 0
        /\ waveFields[k].cellWidth.finite

\* C30: after any number of resize events, the WaveField Game.update works
\* on is the object the WaveRenderer and the AudioRenderer read.
RenderersReadGameField ==
    /\ fieldOf.renderer = fieldOf.game
    /\ fieldOf.audio = fieldOf.game

(***************************************************************************)
(* The life of a wave under a game loop that keeps running: the animation  *)
(* frame callback re-registers itself on every frame (Game.js gameLoop),   *)
(* so a tick that can happen eventually does.  One wave of an emitter with *)
(* a short maxRadius is registered at the first cell of the grid, and      *)
(* nothing but the game touches it.                                        *)
(***************************************************************************)
\* simulated time, in sixtieths of a second, up to which ticks are explored
MaxSettleClock == 30

\* the waves of the emitters with maxRadius 20 px and 30 px
SettleWaves == { wave \in WaveInputs : wave.maxRadius < DefaultMaxRadius }

SettleInit ==
    /\ grid = NewField.grid
    /\ colors = NewField.colors
    /\ held = NewField.held
    /\ timeStep = NewField.timeStep
    /\ pre = NewField
    /\ lastOp = << "onWaveEmitted", 1 >>
    /\ sinceTick = NoTick
    /\ steps = 0
    /\ \E wave \in SettleWaves : waves = << wave >>
    /\ gameWaves = << 1 >>
    /\ rendererWaves = << 1 >>
    /\ pulsed = {}
    /\ ticks = 0
    /\ clock = 0
    /\ isRunning = FALSE
    /\ lastTimestamp = 0
    /\ paused = FALSE
    /\ fresh = FALSE
    /\ Constructed(NoOptions)
    /\ Assembled
    /\ pitch = Held(BaseFreq, "major")

\* Game.update on a frame of the running loop
SettleTick ==
    \E deltaTime \in LifeDeltas :
        /\ clock < MaxSettleClock
        /\ GameTick(deltaTime, FALSE)
        /\ UNCHANGED << loopVars, emitterVars, otherVars >>

SettleNext == SettleTick

\* what a tick does to the clock; a tick is possible exactly when this is
FrameElapses ==
    /\ clock < MaxSettleClock
    /\ \E deltaTime \in LifeDeltas : clock' = clock + deltaTime

SettleSpec == SettleInit /\ [][SettleNext]_vars /\ WF_clock(FrameElapses)

\* C28: every registered wave is eventually absent from both
\* Game.travelingWaves and WaveRenderer.travelingWaves, and stays absent,
\* for every speed, maxRadius and intensity, the radius landing exactly on
\* maxRadius included.
WavesEventuallyGone == <>[](gameWaves = << >> /\ rendererWaves = << >>)

(***************************************************************************)
(* The field at rest: a cone pulse has given cells energy and velocity     *)
(* (and clear() may have zeroed the energy since), and from then on the    *)
(* running game loop only calls update.  origin holds the field the ticks  *)
(* started from and the sum of their deltaTime.  The first frame may carry *)
(* the negative deltaTime of a timestamp earlier than the stored start.    *)
(***************************************************************************)
\* simulated time, in sixtieths of a second, up to which ticks are explored:
\* 0.98^228 < 0.01, and a velocity below 2 is zeroed in 24 more ticks
MaxRestClock == 270

\* frames of a twentieth of a second, and frames long enough to be capped
RestDeltas == LifeDeltas

\* the deltaTime of a first frame: also negative, or a sixtieth of a second
FirstDeltas ==
    RestDeltas \cup ({ CappedDelta(FrameDelta(g, 0)) : g \in FrameGaps } \ { 0 })

RestPulsed ==
    AddWavePulse(AddEnergy(NewField, 0, 0, 30, ToneA.frequency, ToneA.color),
                 Centre, Centre, CellWidth, 1000, ToneB.frequency,
                 ToneB.color, 0, 90)

RestStarts == { RestPulsed, Clear(RestPulsed) }

RestInit ==
    /\ \E F \in RestStarts :
          /\ grid = F.grid
          /\ colors = F.colors
          /\ held = F.held
          /\ timeStep = F.timeStep
          /\ origin = [ field |-> F, total |-> 0 ]
    /\ pre = RestPulsed
    /\ lastOp = << "rest" >>
    /\ sinceTick = NoTick
    /\ steps = 0
    /\ waves = << >>
    /\ gameWaves = << >>
    /\ rendererWaves = << >>
    /\ pulsed = {}
    /\ ticks = 0
    /\ clock = 0
    /\ isRunning = FALSE
    /\ lastTimestamp = 0
    /\ paused = FALSE
    /\ fresh = FALSE
    /\ Constructed(NoOptions)
    /\ waveFields = << NewWaveField(Width, Width, Resolution) >>
    /\ fieldOf = [ game |-> 1, renderer |-> 1, audio |-> 1 ]
    /\ pitch = Held(BaseFreq, "major")

\* update(deltaTime) on a frame of the running loop
RestTick ==
    \E deltaTime \in IF ticks = 0 THEN FirstDeltas ELSE RestDeltas :
        /\ origin.total < MaxRestClock
        /\ SetField(Update(Field, deltaTime))
        /\ pre' = Field
        /\ lastOp' = << "update", deltaTime >>
        /\ ticks' = ticks + 1
        /\ origin' = [ origin EXCEPT !.total = @ + deltaTime ]
        /\ UNCHANGED << sinceTick, steps, waves, gameWaves, rendererWaves,
                        pulsed, clock, loopVars, emitterVars, waveFields,
                        fieldOf, pitch >>

RestNext == RestTick

\* what a tick does to the time covered; a tick is possible exactly when
\* this is
TimePasses ==
    /\ origin.total < MaxRestClock
    /\ \E deltaTime \in FirstDeltas :
          origin' = [ origin EXCEPT !.total = @ + deltaTime ]

RestSpec == RestInit /\ [][RestNext]_vars /\ WF_origin(TimePasses)

\* the model's rounding: every tick rounds the energy down to a thousandth,
\* and the loss of the earlier ticks decays with the energy
Rounding == 20

\* energy0 * decayRate^(60 * total) for a decay factor in millionths
ClosedForm(energy, factor) == Div(energy * factor, 1000000)

\* the energies agree up to rounding, an energy of 0 standing for every
\* value below 0.01
SameEnergy(energy, closed, rounding) ==
    IF energy = 0
    THEN closed < EnergyEpsilon + rounding
    ELSE closed >= EnergyEpsilon /\ Abs(energy - closed) <= rounding

\* C25: with no injections, the energy of every cell after a sequence of
\* update() calls depends only on the sum of their deltaTime: it is
\* energy0 * decayRate^(60 * total) if that is >= 0.01 and 0 otherwise, up
\* to rounding; two ticks leave what one tick of their sum leaves.
EnergyDependsOnTotalTime ==
    /\ [](LET factor == PowDecay(origin.total)
          IN  \A i \in Cells :
                 SameEnergy(grid[i].energy,
                            ClosedForm(origin.field.grid[i].energy, factor),
                            Rounding))
    /\ [][ lastOp[1] = "update" /\ lastOp'[1] = "update"
             => LET factor == PowDecay(lastOp[2] + lastOp'[2])
                IN  \A i \in Cells :
                       SameEnergy(grid'[i].energy,
                                  ClosedForm(pre.grid[i].energy, factor),
                                  2) ]_vars

\* a second of simulated time covered in frames of a twentieth of a second,
\* with energy left
SecondInShortFrames ==
    /\ origin.total = 60
    /\ ticks = 20
    /\ \E i \in Cells : grid[i].energy > EnergyEpsilon

\* every velocity is exactly (0, 0)
AllStill == \A i \in Cells : grid[i].velocity = [ x |-> 0, y |-> 0 ]

\* C26: with no injections, after finitely many ticks every cell's velocity
\* is exactly (0, 0) and stays so, also where clear() or the decay zeroed
\* the energy under a velocity; a tick scales a velocity by
\* newEnergy / oldEnergy while the energy is above 0.01 and by 0.8 otherwise.
VelocityComesToRest ==
    /\ <>[]AllStill
    /\ [][ lastOp'[1] = "update"
             => \A i \in Cells :
                   \/ grid'[i].velocity = [ x |-> 0, y |-> 0 ]
                   \/ IF grid[i].energy > EnergyEpsilon
                      THEN /\ grid'[i].velocity.x =
                                 Div(grid[i].velocity.x
                                       * DecayedEnergy(grid[i].energy,
                                                       lastOp'[2]),
                                     grid[i].energy)
                           /\ grid'[i].velocity.y =
                                 Div(grid[i].velocity.y
                                       * DecayedEnergy(grid[i].energy,
                                                       lastOp'[2]),
                                     grid[i].energy)
                      ELSE /\ grid'[i].velocity.x =
                                 Div(grid[i].velocity.x * 8, 10)
                           /\ grid'[i].velocity.y =
                                 Div(grid[i].velocity.y * 8, 10) ]_vars

\* a tick zeroed the last velocity, that of a cell whose energy was already 0
StillAfterOrphanVelocity ==
    /\ lastOp[1] = "update"
    /\ AllStill
    /\ \E i \in Cells : /\ pre.grid[i].energy = 0
                        /\ pre.grid[i].velocity # [ x |-> 0, y |-> 0 ]

=============================================================================
